---- MODULE Spec2Model ----
(***************************************************************************)
(* LBOpenShiftFinder: one run of main() (src/src/main.py) as a state       *)
(* machine over the persisted state file, the remote calendar and the two  *)
(* read-only collaborators (personal feed, scheduling grid).               *)
(*                                                                         *)
(* Times are naive local instants counted in whole hours; a date is the    *)
(* day number of the start instant.  A shift record carries the fields of  *)
(* models.py; an identity key is the tuple of the fields that the          *)
(* unique_key f-string joins with "|" (no modelled field contains "|").    *)
(*                                                                         *)
(* models.py as found under src/ declares SyncState with last_run and      *)
(* synced_shifts only and Shift without to_open_shift; main.py, state.py   *)
(* use SyncState.picked_shifts / scheduled_shifts and Shift.to_open_shift. *)
(* Those missing members (MissingFields, to_open_shift) are modelled from  *)
(* spec.md section 3; everything else follows the source, to_json and      *)
(* from_json included, which read and write last_run and synced_shifts.    *)
(***************************************************************************)
EXTENDS Integers, Sequences, FiniteSets, TLC

\* ------------------------------------------------------------------ bounds
\* Remote event ids are fresh integers 1..MaxEvents; a create is not
\* accepted once they are used up: every further createEvent raises.
MaxEvents == 2

\* ------------------------------------------------------- program constants
MIN_REST_HOURS == 8

Categories == {"open", "picked", "scheduled"}

\* Order in which sync_to_calendar walks the categories.
CategoryOrder == <<"open", "picked", "scheduled">>

\* --------------------------------------------------------------- helpers
RECURSIVE SeqFilterKeys(_, _, _)
RECURSIVE ScrapeLoop(_, _, _, _, _)

\* OpenShift.unique_key / SyncedShift.unique_key: the joined fields; the
\* google_event_id of a SyncedShift is not part of it.
unique_key(s) == <<s.date, s.start_time, s.end_time, s.assignment, s.label>>

\* Shift.unique_key: four fields, no label.
shift_unique_key(s) == <<s.date, s.start_time, s.end_time, s.assignment>>

Keys(list) == { unique_key(list[i]) : i \in DOMAIN list }

\* [s for s in list if (s.unique_key in keys) == wanted]
SeqFilterKeys(list, keys, wanted) ==
    IF list = <<>> THEN <<>>
    ELSE LET rest == SeqFilterKeys(Tail(list), keys, wanted)
         IN  IF (unique_key(Head(list)) \in keys) = wanted
             THEN <<Head(list)>> \o rest
             ELSE rest

Ids(list) == { list[i].google_event_id : i \in DOMAIN list }

\* ------------------------------------------------------------ data model
\* Shift.to_open_shift (called at main.py:96): the feed shift as a
\* CandidateShift; the display label of a scheduled shift is fixed.
ScheduledLabel == "SCHEDULED"

to_open_shift(s) ==
    [date |-> s.date, start_time |-> s.start_time, end_time |-> s.end_time,
     assignment |-> s.assignment, label |-> ScheduledLabel]

\* Shift(date=..., start_time=..., end_time=..., assignment=...) built from a
\* picked shift at main.py:69-74.
AsShift(s) ==
    [date |-> s.date, start_time |-> s.start_time, end_time |-> s.end_time,
     assignment |-> s.assignment]

\* A from_open_shift that copies the assignment into the label.
from_open_shift_labelFromAssignment(shift, google_event_id) ==
    [date |-> shift.date, start_time |-> shift.start_time,
     end_time |-> shift.end_time, assignment |-> shift.assignment,
     label |-> shift.assignment, google_event_id |-> google_event_id]

\* SyncedShift.from_open_shift
from_open_shift(shift, google_event_id) ==
    [date |-> shift.date, start_time |-> shift.start_time,
     end_time |-> shift.end_time, assignment |-> shift.assignment,
     label |-> shift.label, google_event_id |-> google_event_id]

\* last_run: str | None = None
NoLastRun == "null"

\* The two collections main.py and state.py use next to synced_shifts,
\* empty by default like synced_shifts.
MissingFields == [picked_shifts |-> <<>>, scheduled_shifts |-> <<>>]

\* SyncState(): the field defaults.
EmptySyncState == [last_run |-> NoLastRun, synced_shifts |-> <<>>] @@ MissingFields

\* The collection of SyncState that holds a category.
Coll(state, c) ==
    CASE c = "open"      -> state.synced_shifts
      [] c = "picked"    -> state.picked_shifts
      [] c = "scheduled" -> state.scheduled_shifts

\* ------------------------------------------------------ availability filter
\* A conflict test that takes touching shifts for overlapping ones.
conflicts_given_rest_closedOverlap(open_start, open_end, shifts, min_rest_hours) ==
    LET o_start == open_start
        o_end   == open_end
        rest    == min_rest_hours
    IN  \E i \in DOMAIN shifts :
          LET s_start == shifts[i].start_time
              s_end   == shifts[i].end_time
          IN  \/ (o_start <= s_end /\ s_start <= o_end)
              \/ (o_end <= s_start /\ (s_start - o_end) < rest)
              \/ (s_end <= o_start /\ (o_start - s_end) < rest)

\* The body of conflicts_with_my_shifts for one value of the module constant
\* MIN_REST_HOURS (int(os.getenv("MIN_REST_HOURS", "8"))): the loop returns
\* True at the first shift that overlaps or leaves too little rest.
conflicts_given_rest(open_start, open_end, shifts, min_rest_hours) ==
    LET o_start == open_start
        o_end   == open_end
        rest    == min_rest_hours
    IN  \E i \in DOMAIN shifts :
          LET s_start == shifts[i].start_time
              s_end   == shifts[i].end_time
          IN  \/ (o_start < s_end /\ s_start < o_end)
              \/ (o_end <= s_start /\ (s_start - o_end) < rest)
              \/ (s_end <= o_start /\ (o_start - s_end) < rest)

\* conflicts_with_my_shifts(open_start, open_end, my_shifts) under the
\* default configuration.
conflicts_with_my_shifts(open_start, open_end, shifts) ==
    conflicts_given_rest(open_start, open_end, shifts, MIN_REST_HOURS)

\* main.py:68-88: the open shifts that survive the filter against the feed
\* shifts and the picked shifts of the run.
\* "not s.start_time or not s.end_time": a shift without a time text.
NoTime == -1

HasTimes(s) == s.start_time # NoTime /\ s.end_time # NoTime

RECURSIVE MapAsShift(_)
MapAsShift(list) ==
    IF list = <<>> THEN <<>> ELSE <<AsShift(Head(list))>> \o MapAsShift(Tail(list))

RECURSIVE MapToOpenShift(_)
MapToOpenShift(list) ==
    IF list = <<>> THEN <<>>
    ELSE <<to_open_shift(Head(list))>> \o MapToOpenShift(Tail(list))

RECURSIVE FilterAvailable(_, _)
FilterAvailable(open, combined_my_shifts) ==
    IF open = <<>> THEN <<>>
    ELSE LET s    == Head(open)
             rest == FilterAvailable(Tail(open), combined_my_shifts)
         IN  IF ~HasTimes(s) THEN rest
             ELSE IF conflicts_with_my_shifts(s.start_time, s.end_time,
                                              combined_my_shifts)
                  THEN rest
                  ELSE <<s>> \o rest

\* A filter that checks the feed shifts only and forgets the picked ones.
available_shifts_feedOnly(my, open, picked) == FilterAvailable(open, my)

available_shifts(my, open, picked) == FilterAvailable(open, my \o MapAsShift(picked))

\* ------------------------------------------------------------- the scrape
\* What _extract_open_shifts returns for a month the grid has no data for.
EmptyPage == [open |-> <<>>, picked |-> <<>>]

\* The page the browser shows after month_num clicks on the next-month arrow.
PageAt(pages, month_num) ==
    IF month_num + 1 <= Len(pages) THEN pages[month_num + 1] ELSE EmptyPage

\* scrape_open_shifts, the while loop of scraper.py:636-659.
ScrapeLoop(pages, month_num, all_open, all_picked, seen_keys) ==
    LET page       == PageAt(pages, month_num)
        new_open   == SeqFilterKeys(page.open, seen_keys, FALSE)
        new_picked == SeqFilterKeys(page.picked, seen_keys, FALSE)
    IN  IF new_open = <<>> /\ new_picked = <<>>
        THEN [open |-> all_open, picked |-> all_picked, months |-> month_num]
        ELSE ScrapeLoop(pages, month_num + 1,
                        all_open \o new_open, all_picked \o new_picked,
                        seen_keys \cup Keys(new_open \o new_picked))

\* A month loop that goes on until a page shows nothing at all.
RECURSIVE ScrapeLoop_stopsOnEmptyPage(_, _, _, _, _)
ScrapeLoop_stopsOnEmptyPage(pages, month_num, all_open, all_picked, seen_keys) ==
    LET page       == PageAt(pages, month_num)
        new_open   == SeqFilterKeys(page.open, seen_keys, FALSE)
        new_picked == SeqFilterKeys(page.picked, seen_keys, FALSE)
    IN  IF page.open = <<>> /\ page.picked = <<>>
        THEN [open |-> all_open, picked |-> all_picked, months |-> month_num]
        ELSE ScrapeLoop_stopsOnEmptyPage(pages, month_num + 1,
                        all_open \o new_open, all_picked \o new_picked,
                        seen_keys \cup Keys(new_open \o new_picked))

scrape_open_shifts_stopsOnEmptyPage(pages) ==
    ScrapeLoop_stopsOnEmptyPage(pages, 0, <<>>, <<>>, {})

scrape_open_shifts(pages) == ScrapeLoop(pages, 0, <<>>, <<>>, {})

\* A diff that looks the removals up in the wrong key set: nothing is removed.
DiffCategory_removeAgainstPrevious(enabled, current, previous) ==
    LET previous_keys == Keys(previous)
        current_keys  == IF enabled THEN Keys(current) ELSE {}
    IN  IF enabled
        THEN [to_add    |-> SeqFilterKeys(current, previous_keys, FALSE),
              to_remove |-> SeqFilterKeys(previous, previous_keys, FALSE),
              to_keep   |-> SeqFilterKeys(previous, current_keys, TRUE)]
        ELSE [to_add |-> <<>>, to_remove |-> previous, to_keep |-> <<>>]

\* A disabled category that is skipped instead of torn down.
DiffCategory_noTeardown(enabled, current, previous) ==
    LET previous_keys == Keys(previous)
        current_keys  == IF enabled THEN Keys(current) ELSE {}
    IN  IF enabled
        THEN [to_add    |-> SeqFilterKeys(current, previous_keys, FALSE),
              to_remove |-> SeqFilterKeys(previous, current_keys, FALSE),
              to_keep   |-> SeqFilterKeys(previous, current_keys, TRUE)]
        ELSE [to_add |-> <<>>, to_remove |-> <<>>, to_keep |-> previous]

\* A diff that forgets the unchanged entries: they are neither kept nor
\* removed.
DiffCategory_forgetsKept(enabled, current, previous) ==
    LET previous_keys == Keys(previous)
        current_keys  == IF enabled THEN Keys(current) ELSE {}
    IN  IF enabled
        THEN [to_add    |-> SeqFilterKeys(current, previous_keys, FALSE),
              to_remove |-> SeqFilterKeys(previous, current_keys, FALSE),
              to_keep   |-> <<>>]
        ELSE [to_add |-> <<>>, to_remove |-> previous, to_keep |-> <<>>]

\* A diff that also removes what it keeps.
DiffCategory_keptAlsoRemoved(enabled, current, previous) ==
    LET previous_keys == Keys(previous)
        current_keys  == IF enabled THEN Keys(current) ELSE {}
    IN  IF enabled
        THEN [to_add    |-> SeqFilterKeys(current, previous_keys, FALSE),
              to_remove |-> previous,
              to_keep   |-> SeqFilterKeys(previous, current_keys, TRUE)]
        ELSE [to_add |-> <<>>, to_remove |-> previous, to_keep |-> <<>>]

\* A diff that takes an empty current list for a failed scrape and leaves
\* the stored entries alone.
DiffCategory_keepsWhenNothingCurrent(enabled, current, previous) ==
    LET previous_keys == Keys(previous)
        current_keys  == IF enabled THEN Keys(current) ELSE {}
    IN  IF enabled /\ current = <<>>
        THEN [to_add |-> <<>>, to_remove |-> <<>>, to_keep |-> previous]
        ELSE IF enabled
        THEN [to_add    |-> SeqFilterKeys(current, previous_keys, FALSE),
              to_remove |-> SeqFilterKeys(previous, current_keys, FALSE),
              to_keep   |-> SeqFilterKeys(previous, current_keys, TRUE)]
        ELSE [to_add |-> <<>>, to_remove |-> previous, to_keep |-> <<>>]

\* ------------------------------------------------------ reconciliation diff
\* main.py:98-132, one category: the current list, the previously synced
\* list and the category's sync flag.
DiffCategory(enabled, current, previous) ==
    LET previous_keys == Keys(previous)
        current_keys  == IF enabled THEN Keys(current) ELSE {}
    IN  IF enabled
        THEN [to_add    |-> SeqFilterKeys(current, previous_keys, FALSE),
              to_remove |-> SeqFilterKeys(previous, current_keys, FALSE),
              to_keep   |-> SeqFilterKeys(previous, current_keys, TRUE)]
        ELSE [to_add |-> <<>>, to_remove |-> previous, to_keep |-> <<>>]

\* The current list of a category (main.py:96-101).
CurrentList(c, my, open, picked) ==
    CASE c = "open"      -> available_shifts(my, open, picked)
      [] c = "picked"    -> picked
      [] c = "scheduled" -> MapToOpenShift(my)

\* Diffs that share one set of previous keys: a shift whose key is stored
\* under any category counts as synced already.
Reconcile_sharedPreviousKeys(sync, state, my, open, picked) ==
    LET stored == state.synced_shifts \o state.picked_shifts \o state.scheduled_shifts
    IN  [c \in Categories |->
           LET d == DiffCategory(sync[c], CurrentList(c, my, open, picked), Coll(state, c))
           IN  [d EXCEPT !.to_add = SeqFilterKeys(d.to_add, Keys(stored), FALSE)]]

Reconcile(sync, state, my, open, picked) ==
    [c \in Categories |->
        DiffCategory(sync[c], CurrentList(c, my, open, picked), Coll(state, c))]

\* The three diff blocks of main.py:103-132 run in some order: each block
\* reads the flags, the loaded state and the lists of the run and assigns
\* its own three lists.
RECURSIVE DiffsInOrder(_, _, _, _, _, _, _, _)
DiffsInOrder(order, i, done, sync, state, my, open, picked) ==
    IF i > Len(order) THEN done
    ELSE DiffsInOrder(order, i + 1,
           [done EXCEPT ![order[i]] = Reconcile(sync, state, my, open, picked)[order[i]]],
           sync, state, my, open, picked)

ReconcileInOrder(order, sync, state, my, open, picked) ==
    DiffsInOrder(order, 1,
                 [c \in Categories |-> [to_add |-> <<>>, to_remove |-> <<>>, to_keep |-> <<>>]],
                 sync, state, my, open, picked)

\* main.py:139
AnyChange(d) ==
    \E c \in Categories : d[c].to_add # <<>> \/ d[c].to_remove # <<>>

\* --------------------------------------------------------- the state file
\* What the file may hold: nothing, text that is no JSON, JSON that is no
\* object, an object whose entries lack or add fields, a state document.
FileKinds == {"missing", "invalid_json", "not_object", "bad_entry", "doc"}

\* SyncState.to_json: the JSON object save_state writes.
to_json(state) ==
    [last_run |-> state.last_run, synced_shifts |-> state.synced_shifts]

EmptyDoc == to_json(EmptySyncState)

FileOf(kind, doc) == [kind |-> kind, doc |-> doc]

\* SyncState.from_json: the exception json.loads, parsed.get or
\* SyncedShift(**s) raises for a file content, "none" when it returns.
from_json_error(file) ==
    CASE file.kind = "invalid_json" -> "JSONDecodeError"
      [] file.kind = "not_object"   -> "AttributeError"
      [] file.kind = "bad_entry"    -> "TypeError"
      [] OTHER                      -> "none"

\* SyncState.from_json on a state document: cls(last_run=..., synced_shifts=...).
from_json(doc) ==
    [last_run |-> doc.last_run, synced_shifts |-> doc.synced_shifts] @@ MissingFields

\* load_state: the state it returns, or the exception it lets escape.
load_state(file) ==
    IF file.kind = "missing"
    THEN [raised |-> "none", state |-> EmptySyncState]
    ELSE LET exc == from_json_error(file)
         IN  IF exc = "none"
             THEN [raised |-> "none", state |-> from_json(file.doc)]
             ELSE IF exc \in {"JSONDecodeError", "KeyError"}
                  THEN [raised |-> "none", state |-> EmptySyncState]
                  ELSE [raised |-> exc, state |-> EmptySyncState]

\* ------------------------------------------------------------ the inputs
\* The feed shift of the end-to-end scenario (19:00 to 07:00 next day, R15).
F1 == [date |-> 1, start_time |-> 43, end_time |-> 55, assignment |-> "R15"]

\* Grid cells: G1 overlaps F1 completely, G2 is free of F1 and P1, P1 starts
\* three hours after G1 ends.
G1 == [date |-> 1, start_time |-> 43, end_time |-> 55, assignment |-> "R15",
       label |-> "OPEN 1"]
G2 == [date |-> 3, start_time |-> 80, end_time |-> 88, assignment |-> "A3",
       label |-> "OPEN 1"]
P1 == [date |-> 2, start_time |-> 58, end_time |-> 63, assignment |-> "T1",
       label |-> "OPEN 2"]

Feeds == { <<>>, <<F1>> }

\* Scraping sessions: the pages the grid shows month after month.
Grids ==
    { <<>>,
      << [open |-> <<G1>>, picked |-> <<>>] >>,
      << [open |-> <<G1, G2>>, picked |-> <<>>] >>,
      << [open |-> <<G2, G2>>, picked |-> <<>>] >>,
      << [open |-> <<G2, P1>>, picked |-> <<>>] >>,
      << [open |-> <<G1>>, picked |-> <<P1>>] >> }

\* _str_to_bool defaults of main.py:37-39.
DefaultFlags == [c \in Categories |-> TRUE]

\* All categories on, all of them off, or only the open shifts off.
Flags ==
    { DefaultFlags,
      [c \in Categories |-> FALSE],
      [c \in Categories |-> c # "open"] }

\* datetime.now(timezone.utc).isoformat(): some instant.
Now == "now"

\* ------------------------------------------------------------- the state
VARIABLES
    sync,            \* configuration: the three sync flags
    feed,            \* what the personal feed returns
    grid,            \* what the scheduling grid shows, page by page
    disk,            \* the state file
    calendar,        \* the managed events of the remote calendar
    nextId,          \* the id the next created event gets
    pc,              \* position of the run in main()
    state,           \* main: the SyncState loaded (then rebuilt)
    my_shifts,       \* main: fetch_my_shifts result
    open_shifts,     \* main: scraped open shifts
    picked_shifts,   \* main: scraped picked shifts
    diff,            \* main: to_add / to_remove / to_keep per category
    removed,         \* sync_to_calendar: deletes already called
    newly,           \* sync_to_calendar: newly_synced_* per category
    failure,         \* what aborted the run, "none" otherwise
    saveCalls,       \* history: save_state calls of this run
    diskAtStart,     \* history: the state file when the run started
    deleteLog,       \* history: event ids deleteEvent was called with, this run
    deleteFailed,    \* history: event ids whose delete raised, this run
    created,         \* history: every successful createEvent
    savedBefore,     \* history: event ids in the state file the last completed run left
    stable,          \* history: nothing changed since the last completed run
    called,          \* the helper function applied on its own, "none" otherwise
    args,            \* its arguments
    result           \* what it returned or raised

mainVars == <<sync, feed, grid, disk, calendar, nextId, pc, state, my_shifts,
              open_shifts, picked_shifts, diff, removed, newly, failure,
              saveCalls, diskAtStart, deleteLog, deleteFailed, created,
              savedBefore, stable>>

callVars == <<called, args, result>>

vars == <<mainVars, callVars>>

envVars  == <<sync, feed, grid>>
runVars  == <<state, my_shifts, open_shifts, picked_shifts, diff, removed, newly>>
histVars == <<saveCalls, diskAtStart, deleteLog, deleteFailed, created,
              savedBefore>>

NoDiff == [c \in Categories |->
             [to_add |-> <<>>, to_remove |-> <<>>, to_keep |-> <<>>]]

NoNewly == [c \in Categories |-> <<>>]

Init ==
    /\ sync = DefaultFlags
    /\ feed = <<>>
    /\ grid = <<>>
    /\ disk = FileOf("missing", EmptyDoc)
    /\ calendar = {}
    /\ nextId = 1
    /\ pc = "idle"
    /\ state = EmptySyncState
    /\ my_shifts = <<>>
    /\ open_shifts = <<>>
    /\ picked_shifts = <<>>
    /\ diff = NoDiff
    /\ removed = 0
    /\ newly = NoNewly
    /\ failure = "none"
    /\ saveCalls = 0
    /\ diskAtStart = FileOf("missing", EmptyDoc)
    /\ deleteLog = <<>>
    /\ deleteFailed = {}
    /\ created = {}
    /\ savedBefore = {}
    /\ stable = FALSE
    /\ called = "none"
    /\ args = <<>>
    /\ result = <<>>

\* ------------------------------------------------- the world between runs
\* The schedule is edited: the feed or the grid shows something else.
EditSchedule ==
    /\ UNCHANGED callVars
    /\ pc = "idle"
    /\ \E f \in Feeds, g \in Grids :
         /\ <<f, g>> # <<feed, grid>>
         /\ feed' = f
         /\ grid' = g
    /\ stable' = FALSE
    /\ UNCHANGED <<sync, disk, calendar, nextId, pc, failure>>
    /\ UNCHANGED runVars
    /\ UNCHANGED histVars

\* SYNC_OPEN_SHIFTS / SYNC_PICKED_SHIFTS / SYNC_SCHEDULED_SHIFTS are changed.
EditConfig ==
    /\ UNCHANGED callVars
    /\ pc = "idle"
    /\ \E f \in Flags : f # sync /\ sync' = f
    /\ stable' = FALSE
    /\ UNCHANGED <<feed, grid, disk, calendar, nextId, pc, failure>>
    /\ UNCHANGED runVars
    /\ UNCHANGED histVars

\* The state file is removed, truncated or overwritten by something else.
DamageFile ==
    /\ UNCHANGED callVars
    /\ pc = "idle"
    /\ \E k \in FileKinds \ {"doc"} :
         /\ disk.kind # k
         /\ disk' = FileOf(k, EmptyDoc)
    /\ stable' = FALSE
    /\ UNCHANGED <<sync, feed, grid, calendar, nextId, pc, failure>>
    /\ UNCHANGED runVars
    /\ UNCHANGED histVars

\* ------------------------------------------------------------ one run
\* The run ends with the exception that escaped main().
Abort(cause) ==
    /\ pc' = "failed"
    /\ failure' = cause

\* main.py:44-47
LoadState ==
    /\ UNCHANGED callVars
    /\ pc = "idle"
    /\ diskAtStart' = disk
    /\ LET r == load_state(disk)
       IN  IF r.raised = "none"
           THEN /\ state' = r.state
                /\ pc' = "loaded"
                /\ failure' = "none"
           ELSE /\ Abort("load")
                /\ state' = state
    /\ UNCHANGED <<sync, feed, grid, disk, calendar, nextId, my_shifts,
                   open_shifts, picked_shifts, diff, removed, newly, saveCalls,
                   deleteLog, deleteFailed, created,
                   savedBefore, stable>>

\* main.py:52, fetch_my_shifts returns the feed or raises.
FetchFeed ==
    /\ UNCHANGED callVars
    /\ pc = "loaded"
    /\ \/ /\ my_shifts' = feed
          /\ pc' = "fetched"
          /\ failure' = failure
       \/ /\ Abort("feed")
          /\ my_shifts' = my_shifts
    /\ UNCHANGED <<sync, feed, grid, disk, calendar, nextId, state, open_shifts,
                   picked_shifts, diff, removed, newly, stable>>
    /\ UNCHANGED histVars

\* main.py:60, scrape_open_shifts returns both lists or raises.
Scrape ==
    /\ UNCHANGED callVars
    /\ pc = "fetched"
    /\ \/ /\ LET r == scrape_open_shifts(grid)
             IN  /\ open_shifts' = r.open
                 /\ picked_shifts' = r.picked
          /\ pc' = "scraped"
          /\ failure' = failure
       \/ /\ Abort("scrape")
          /\ UNCHANGED <<open_shifts, picked_shifts>>
    /\ UNCHANGED <<sync, feed, grid, disk, calendar, nextId, state, my_shifts,
                   diff, removed, newly, stable>>
    /\ UNCHANGED histVars

\* main.py:65-136: filter, then the three diffs.
Diff ==
    /\ UNCHANGED callVars
    /\ pc = "scraped"
    /\ diff' = Reconcile(sync, state, my_shifts, open_shifts, picked_shifts)
    /\ pc' = "diffed"
    /\ UNCHANGED <<sync, feed, grid, disk, calendar, nextId, state, my_shifts,
                   open_shifts, picked_shifts, removed, newly, failure, stable>>
    /\ UNCHANGED histVars

\* The entries of every collection of a SyncState, and their event ids.
AllEntries(st) == st.synced_shifts \o st.picked_shifts \o st.scheduled_shifts

\* The state a run would load from a file that load_state accepts.
Persisted(file) == load_state(file).state

\* save_state: STATE_FILE.write_text(state.to_json())
Persist(st) ==
    /\ disk' = FileOf("doc", to_json(st))
    /\ saveCalls' = saveCalls + 1

\* A main() that saves what was synced so far when a create raises.
OnCreateFailure_savesPartial ==
    /\ Abort("create")
    /\ Persist([last_run         |-> Now,
                synced_shifts    |-> diff["open"].to_keep \o newly["open"],
                picked_shifts    |-> diff["picked"].to_keep \o newly["picked"],
                scheduled_shifts |-> diff["scheduled"].to_keep \o newly["scheduled"]])

\* A main() that stamps last_run on the way out when a create raises.
OnCreateFailure_savesLastRun ==
    /\ Abort("create")
    /\ Persist([state EXCEPT !.last_run = Now])

\* add_open_shift raises: the exception leaves sync_to_calendar and main
\* before main.py:153-160, nothing is written.
OnCreateFailure ==
    /\ Abort("create")
    /\ UNCHANGED <<disk, saveCalls>>

\* sync_to_calendar walks open_to_remove, picked_to_remove,
\* scheduled_to_remove in this order.
RemoveQueue(d) == d["open"].to_remove \o d["picked"].to_remove \o d["scheduled"].to_remove

\* The categories that still have a shift to create, in call order.
PendingAdd(d, n) ==
    SelectSeq(CategoryOrder, LAMBDA c : Len(n[c]) < Len(d[c].to_add))

\* A remove_open_shift that lets the exception of deleteEvent escape.
OnDeleteFailure_raises == Abort("delete")

\* remove_open_shift, the except branch: the failure is logged and the loop
\* of sync_to_calendar goes on.
OnDeleteFailure == UNCHANGED <<pc, failure>>

\* calendar_sync.py:174-180 with remove_open_shift: one deleteEvent call.
RemoveStep ==
    /\ UNCHANGED callVars
    /\ pc = "diffed"
    /\ AnyChange(diff)
    /\ removed < Len(RemoveQueue(diff))
    /\ LET id == RemoveQueue(diff)[removed + 1].google_event_id
       IN  /\ removed' = removed + 1
           /\ deleteLog' = Append(deleteLog, id)
           /\ \/ /\ calendar' = { e \in calendar : e.id # id }
                 /\ deleteFailed' = deleteFailed
                 /\ UNCHANGED <<pc, failure>>
              \/ /\ calendar' = calendar
                 /\ deleteFailed' = deleteFailed \cup {id}
                 /\ OnDeleteFailure
    /\ UNCHANGED <<sync, feed, grid, disk, nextId, state, my_shifts,
                   open_shifts, picked_shifts, diff, newly, saveCalls,
                   diskAtStart, created, savedBefore, stable>>

\* calendar_sync.py:182-198 with add_open_shift: one createEvent call; a
\* failure escapes sync_to_calendar and main.
AddStep ==
    /\ UNCHANGED callVars
    /\ pc = "diffed"
    /\ AnyChange(diff)
    /\ removed = Len(RemoveQueue(diff))
    /\ PendingAdd(diff, newly) # <<>>
    /\ LET c     == Head(PendingAdd(diff, newly))
           shift == diff[c].to_add[Len(newly[c]) + 1]
       IN  \/ /\ nextId <= MaxEvents
              /\ calendar' = calendar \cup
                     {[id |-> nextId, cat |-> c, key |-> unique_key(shift)]}
              /\ newly' = [newly EXCEPT ![c] = Append(@, from_open_shift(shift, nextId))]
              /\ created' = created \cup
                     {[id |-> nextId, cat |-> c, key |-> unique_key(shift)]}
              /\ nextId' = nextId + 1
              /\ UNCHANGED <<pc, failure>>
              /\ UNCHANGED <<disk, saveCalls>>
           \/ /\ OnCreateFailure
              /\ UNCHANGED <<calendar, newly, created, nextId>>
    /\ UNCHANGED <<sync, feed, grid, state, my_shifts, open_shifts,
                   picked_shifts, diff, removed, diskAtStart, deleteLog,
                   deleteFailed, savedBefore, stable>>

\* main.py:153-160, after sync_to_calendar returned.
SaveState ==
    /\ UNCHANGED callVars
    /\ pc = "diffed"
    /\ AnyChange(diff)
    /\ removed = Len(RemoveQueue(diff))
    /\ PendingAdd(diff, newly) = <<>>
    /\ state' = [last_run         |-> Now,
                 synced_shifts    |-> diff["open"].to_keep \o newly["open"],
                 picked_shifts    |-> diff["picked"].to_keep \o newly["picked"],
                 scheduled_shifts |-> diff["scheduled"].to_keep \o newly["scheduled"]]
    /\ Persist(state')
    /\ pc' = "done"
    /\ stable' = TRUE
    /\ UNCHANGED <<sync, feed, grid, calendar, nextId, my_shifts, open_shifts,
                   picked_shifts, diff, removed, newly, failure, diskAtStart,
                   deleteLog, deleteFailed, created, savedBefore>>

\* A no-op branch that saves a fresh SyncState instead of the loaded one.
NoopSave_savesFreshState ==
    /\ UNCHANGED callVars
    /\ pc = "diffed"
    /\ ~AnyChange(diff)
    /\ state' = [EmptySyncState EXCEPT !.last_run = Now]
    /\ Persist(state')
    /\ pc' = "done"
    /\ stable' = TRUE
    /\ UNCHANGED <<sync, feed, grid, calendar, nextId, my_shifts, open_shifts,
                   picked_shifts, diff, removed, newly, failure, diskAtStart,
                   deleteLog, deleteFailed, created, savedBefore>>

\* main.py:161-164, nothing to add and nothing to remove.
NoopSave ==
    /\ UNCHANGED callVars
    /\ pc = "diffed"
    /\ ~AnyChange(diff)
    /\ state' = [state EXCEPT !.last_run = Now]
    /\ Persist(state')
    /\ pc' = "done"
    /\ stable' = TRUE
    /\ UNCHANGED <<sync, feed, grid, calendar, nextId, my_shifts, open_shifts,
                   picked_shifts, diff, removed, newly, failure, diskAtStart,
                   deleteLog, deleteFailed, created, savedBefore>>

\* The process exits; the next invocation starts from scratch.
EndRun ==
    /\ UNCHANGED callVars
    /\ pc \in {"done", "failed"}
    /\ pc' = "idle"
    /\ state' = EmptySyncState
    /\ my_shifts' = <<>>
    /\ open_shifts' = <<>>
    /\ picked_shifts' = <<>>
    /\ diff' = NoDiff
    /\ removed' = 0
    /\ newly' = NoNewly
    /\ failure' = "none"
    /\ saveCalls' = 0
    /\ diskAtStart' = FileOf("missing", EmptyDoc)
    /\ deleteLog' = <<>>
    /\ deleteFailed' = {}
    /\ savedBefore' = IF pc = "done"
                      THEN Ids(AllEntries(Persisted(disk)))
                      ELSE savedBefore
    /\ UNCHANGED <<sync, feed, grid, disk, calendar, nextId, created, stable>>

Next ==
    \/ EditSchedule
    \/ EditConfig
    \/ DamageFile
    \/ LoadState
    \/ FetchFeed
    \/ Scrape
    \/ Diff
    \/ RemoveStep
    \/ AddStep
    \/ SaveState
    \/ NoopSave
    \/ EndRun

Spec == Init /\ [][Next]_vars

\* Runs, schedule edits and configuration edits only: nothing but the program
\* touches the state file.
NextIntact ==
    \/ EditSchedule
    \/ EditConfig
    \/ LoadState
    \/ FetchFeed
    \/ Scrape
    \/ Diff
    \/ RemoveStep
    \/ AddStep
    \/ SaveState
    \/ NoopSave
    \/ EndRun

SpecIntact == Init /\ [][NextIntact]_vars

\* ------------------------------------------------- grid-to-date correlation
\* _get_header_for_row returns None.
NoHeader == -1

RECURSIVE HeaderLoop(_, _, _)
\* The for loop of _get_header_for_row with its running best.
HeaderLoop(row_top, header_tops, best) ==
    IF header_tops = <<>> THEN best
    ELSE LET ht == Head(header_tops)
         IN  IF ht <= row_top /\ (best = NoHeader \/ ht > best)
             THEN HeaderLoop(row_top, Tail(header_tops), ht)
             ELSE HeaderLoop(row_top, Tail(header_tops), best)

\* A correlator that takes the first header at or above the row.
_get_header_for_row_firstAbove(row_top, header_tops) ==
    IF \E i \in DOMAIN header_tops : header_tops[i] <= row_top
    THEN header_tops[CHOOSE i \in DOMAIN header_tops :
                       /\ header_tops[i] <= row_top
                       /\ \A j \in 1..(i - 1) : header_tops[j] > row_top]
    ELSE NoHeader

_get_header_for_row(row_top, header_tops) ==
    HeaderLoop(row_top, header_tops, NoHeader)

\* ------------------------------------------------------------ date texts
\* A date text is the record of what is written: the layout it has (one of
\* the strptime formats of _parse_date, or "other") and the numbers in it.
\* A year is four digits, or two digits for %y, or absent for "%b %d".
IsLeap(y) == (y % 4 = 0 /\ y % 100 # 0) \/ y % 400 = 0

DaysIn(y, m) ==
    CASE m \in {1, 3, 5, 7, 8, 10, 12} -> 31
      [] m \in {4, 6, 9, 11}           -> 30
      [] m = 2                         -> IF IsLeap(y) THEN 29 ELSE 28
      [] OTHER                         -> 0

\* datetime(y, m, d) exists.
ValidDate(y, m, d) == m \in 1..12 /\ d \in 1..DaysIn(y, m)

\* The formats _parse_date tries, in order.
DateFormats == <<"%m/%d/%Y", "%m/%d/%y", "%Y-%m-%d", "%b %d, %Y", "%b %d">>

\* strptime's default year when the format has none.
StrptimeDefaultYear == 1900

\* strptime's reading of %y: 69-99 are 1969-1999, 0-68 are 2000-2068.
TwoDigitYear(yy) == IF yy >= 69 THEN 1900 + yy ELSE 2000 + yy

\* None / ValueError of a date function.
NoDate == [ok |-> FALSE, y |-> 0, m |-> 0, d |-> 0]

\* datetime.strptime(date_text, fmt): the date, or NoDate for ValueError.
strptime(date_text, fmt) ==
    IF date_text.fmt # fmt THEN NoDate
    ELSE LET year == CASE fmt = "%m/%d/%y" -> TwoDigitYear(date_text.y)
                       [] fmt = "%b %d"    -> StrptimeDefaultYear
                       [] OTHER            -> date_text.y
         IN  IF ValidDate(year, date_text.m, date_text.d)
             THEN [ok |-> TRUE, y |-> year, m |-> date_text.m, d |-> date_text.d]
             ELSE NoDate

RECURSIVE ParseDateLoop(_, _, _)
\* The for loop of _parse_date over the formats still to try.
ParseDateLoop(date_text, fmts, now_year) ==
    IF fmts = <<>> THEN NoDate
    ELSE LET dt == strptime(date_text, Head(fmts))
         IN  IF ~dt.ok
             THEN ParseDateLoop(date_text, Tail(fmts), now_year)
             ELSE IF dt.y = StrptimeDefaultYear
                  THEN [dt EXCEPT !.y = now_year]
                  ELSE dt

\* A _parse_date that gives every two-digit year the current year.
_parse_date_twoDigitIsNow(date_text, now_year) ==
    LET dt == ParseDateLoop(date_text, DateFormats, now_year)
    IN  IF dt.ok /\ date_text.fmt = "%m/%d/%y"
        THEN [dt EXCEPT !.y = now_year]
        ELSE dt

\* _parse_date(date_text), with datetime.now().year as second argument.
_parse_date(date_text, now_year) ==
    ParseDateLoop(date_text, DateFormats, now_year)

\* ------------------------------------------------------------ time texts
\* A clock text is "<h>:<mi>" followed by am/pm or by nothing; a time range
\* text is "<clock> - <clock>" with or without a "(M/D)" suffix, or some
\* other text.  An instant is a naive local date and time of day.
NoClock == [ok |-> FALSE, hour |-> 0, minute |-> 0]

\* _parse_single_time: with am/pm only "%I:%M %p" can succeed (hours 1-12);
\* without, only "%H:%M" (hours 0-23).
_parse_single_time(t) ==
    IF t.ap # "none"
    THEN IF t.h \in 1..12 /\ t.mi \in 0..59
         THEN [ok |-> TRUE,
               hour |-> (t.h % 12) + (IF t.ap = "pm" THEN 12 ELSE 0),
               minute |-> t.mi]
         ELSE NoClock
    ELSE IF t.h \in 0..23 /\ t.mi \in 0..59
         THEN [ok |-> TRUE, hour |-> t.h, minute |-> t.mi]
         ELSE NoClock

NoSuffix == [present |-> FALSE, m |-> 0, d |-> 0]

WithoutAmPm(t) == [t EXCEPT !.ap = "none"]

\* The two re.search calls of _parse_times: the 12-hour pattern needs am/pm
\* after both clocks; the 24-hour fallback needs the dash right after the
\* first clock, stops after the digits of the second and finds the suffix
\* only if it follows those digits.
TimesMatch(time_text) ==
    IF time_text.shape # "range"
    THEN [matched |-> FALSE, g1 |-> time_text.start, g2 |-> time_text.end,
          g3 |-> NoSuffix]
    ELSE IF time_text.start.ap # "none" /\ time_text.end.ap # "none"
    THEN [matched |-> TRUE, g1 |-> time_text.start, g2 |-> time_text.end,
          g3 |-> time_text.suffix]
    ELSE IF time_text.start.ap = "none"
    THEN [matched |-> TRUE, g1 |-> time_text.start,
          g2 |-> WithoutAmPm(time_text.end),
          g3 |-> IF time_text.end.ap = "none" THEN time_text.suffix ELSE NoSuffix]
    ELSE [matched |-> FALSE, g1 |-> time_text.start, g2 |-> time_text.end,
          g3 |-> NoSuffix]

NoInstant == [y |-> 0, m |-> 0, d |-> 0, hour |-> 0, minute |-> 0]

\* (None, None), and a ValueError that leaves _parse_times.
InvalidTimes == [kind |-> "invalid", start |-> NoInstant, end |-> NoInstant]
RaisedTimes == [kind |-> "raised", start |-> NoInstant, end |-> NoInstant]

\* base.replace(hour=..., minute=...)
At(date, clock) ==
    [y |-> date.y, m |-> date.m, d |-> date.d,
     hour |-> clock.hour, minute |-> clock.minute]

\* Order of two dates, as datetime compares them.
DateBefore(a, b) ==
    \/ a.y < b.y
    \/ a.y = b.y /\ a.m < b.m
    \/ a.y = b.y /\ a.m = b.m /\ a.d < b.d

\* A _parse_times that keeps the year of the shift date for the suffix.
_parse_times_noRollover(time_text, shift_date) ==
    IF ~shift_date.ok THEN InvalidTimes
    ELSE LET match == TimesMatch(time_text)
             start_t == _parse_single_time(match.g1)
             end_t   == _parse_single_time(match.g2)
         IN  IF ~match.matched \/ ~start_t.ok \/ ~end_t.ok THEN InvalidTimes
             ELSE IF ~match.g3.present
             THEN [kind |-> "times", start |-> At(shift_date, start_t),
                   end |-> At(shift_date, end_t)]
             ELSE IF ~ValidDate(shift_date.y, match.g3.m, match.g3.d)
             THEN RaisedTimes
             ELSE [kind |-> "times", start |-> At(shift_date, start_t),
                   end |-> At([y |-> shift_date.y, m |-> match.g3.m,
                               d |-> match.g3.d], end_t)]

\* _parse_times(time_text, shift_date)
_parse_times(time_text, shift_date) ==
    IF ~shift_date.ok THEN InvalidTimes
    ELSE
    LET match == TimesMatch(time_text)
    IN  IF ~match.matched THEN InvalidTimes
        ELSE
        LET start_t == _parse_single_time(match.g1)
            end_t   == _parse_single_time(match.g2)
            end_date_suffix == match.g3
        IN  IF ~start_t.ok \/ ~end_t.ok THEN InvalidTimes
            ELSE
            LET start_base == [y |-> shift_date.y, m |-> shift_date.m,
                               d |-> shift_date.d]
                start_dt == At(start_base, start_t)
            IN  IF end_date_suffix.present
                THEN \* start_base.replace(month=end_month, day=end_day)
                     IF ~ValidDate(start_base.y, end_date_suffix.m, end_date_suffix.d)
                     THEN RaisedTimes
                     ELSE LET end_base == [y |-> start_base.y,
                                           m |-> end_date_suffix.m,
                                           d |-> end_date_suffix.d]
                          IN  IF DateBefore(end_base, start_base)
                              THEN \* end_base.replace(year=end_base.year + 1)
                                   IF ~ValidDate(end_base.y + 1, end_base.m, end_base.d)
                                   THEN RaisedTimes
                                   ELSE [kind |-> "times", start |-> start_dt,
                                         end |-> At([end_base EXCEPT !.y = @ + 1], end_t)]
                              ELSE [kind |-> "times", start |-> start_dt,
                                    end |-> At(end_base, end_t)]
                ELSE [kind |-> "times", start |-> start_dt,
                      end |-> At(start_base, end_t)]

\* ------------------------------------------------------------ cell texts
\* A text is a sequence of one-character strings.
Whitespace == {" ", "\n", "\t"}

DigitChars == {"0", "1", "2", "3", "4", "5", "6", "7", "8", "9"}

UpperCase == <<"A", "B", "C", "D", "E", "F", "G", "H", "I", "J", "K", "L", "M",
               "N", "O", "P", "Q", "R", "S", "T", "U", "V", "W", "X", "Y", "Z">>

LowerCase == <<"a", "b", "c", "d", "e", "f", "g", "h", "i", "j", "k", "l", "m",
               "n", "o", "p", "q", "r", "s", "t", "u", "v", "w", "x", "y", "z">>

\* Case folding of re.IGNORECASE.
Lower(c) ==
    IF \E i \in 1..26 : UpperCase[i] = c
    THEN LowerCase[CHOOSE i \in 1..26 : UpperCase[i] = c]
    ELSE c

LowerText(text) == [i \in 1..Len(text) |-> Lower(text[i])]

RECURSIVE LStrip(_)
LStrip(text) ==
    IF text = <<>> \/ Head(text) \notin Whitespace THEN text
    ELSE LStrip(Tail(text))

RECURSIVE RStrip(_)
RStrip(text) ==
    IF text = <<>> \/ text[Len(text)] \notin Whitespace THEN text
    ELSE RStrip(SubSeq(text, 1, Len(text) - 1))

\* str.strip()
strip(text) == RStrip(LStrip(text))

\* text.split("\n")[0]
FirstLine(text) ==
    LET breaks == { i \in 1..Len(text) : text[i] = "\n" }
    IN  IF breaks = {} THEN text
        ELSE SubSeq(text, 1, (CHOOSE i \in breaks : \A j \in breaks : i <= j) - 1)

\* label = cell_text.split("\n")[0].strip()
LabelOf(cell_text) == strip(FirstLine(cell_text))

\* The number of leading characters of text that lie in chars.
RECURSIVE Leading(_, _)
Leading(text, chars) ==
    IF text = <<>> \/ Head(text) \notin chars THEN 0
    ELSE 1 + Leading(Tail(text), chars)

\* re.match(r"OPEN\s*\d*", label, re.IGNORECASE): the end of the match, or
\* -1 without a match.  The pattern is tried at the start of the label only;
\* \s* and \d* take what is there and the match ends wherever they stop.
NoMatch == -1

\* A match that has to reach the end of the label.
MatchOpen_wholeLabel(label) ==
    IF Len(label) >= 4 /\ LowerText(SubSeq(label, 1, 4)) = <<"o", "p", "e", "n">>
    THEN LET spaces == Leading(SubSeq(label, 5, Len(label)), Whitespace)
             digits == Leading(SubSeq(label, 5 + spaces, Len(label)), DigitChars)
         IN  IF 4 + spaces + digits = Len(label) THEN Len(label) ELSE NoMatch
    ELSE NoMatch

MatchOpen(label) ==
    IF Len(label) >= 4 /\ LowerText(SubSeq(label, 1, 4)) = <<"o", "p", "e", "n">>
    THEN LET spaces == Leading(SubSeq(label, 5, Len(label)), Whitespace)
             digits == Leading(SubSeq(label, 5 + spaces, Len(label)), DigitChars)
         IN  4 + spaces + digits
    ELSE NoMatch

\* re.search(pattern, text, re.IGNORECASE) for a pattern without
\* metacharacters: the pattern occurs somewhere in the text, case folded.
Search(pattern, text) ==
    \E i \in 1..(Len(text) - Len(pattern) + 1) :
        LowerText(SubSeq(text, i, i + Len(pattern) - 1)) = LowerText(pattern)

\* A name test that compares the characters as they are written.
NameMatches_caseSensitive(pattern, cell_text) ==
    /\ pattern # <<>>
    /\ \E i \in 1..(Len(cell_text) - Len(pattern) + 1) :
          SubSeq(cell_text, i, i + Len(pattern) - 1) = pattern

\* MY_NAME_PATTERN and re.search(MY_NAME_PATTERN, cell_text, re.IGNORECASE)
NameMatches(pattern, cell_text) ==
    /\ pattern # <<>>
    /\ Search(pattern, cell_text)

\* ----------------------------------------------------------- the grid page
\* A page is the date map of its week headers (header offset to the dates
\* of its columns) and its row blocks; a block has an offset (or a style
\* without one), a row with a left column holding the assignment, and
\* cells; a cell has a text element (text, pending-chg class, times span)
\* and the text its popup shows when clicked.
NoTimesSpan == [present |-> FALSE]

NoOffset == -1

\* The shift of a cell, with the times the cell gives it.
CellShift(shift_date, times, assignment, label) ==
    [date |-> [y |-> shift_date.y, m |-> shift_date.m, d |-> shift_date.d],
     start_time |-> times.start, end_time |-> times.end,
     assignment |-> assignment, label |-> label]

\* base.replace(hour=0, minute=0) and base.replace(hour=23, minute=59)
PlaceholderTimes(shift_date) ==
    [kind |-> "times",
     start |-> At(shift_date, [hour |-> 0, minute |-> 0]),
     end |-> At(shift_date, [hour |-> 23, minute |-> 59])]

\* The times of a candidate cell: the times span, then the popup, then the
\* all-day placeholder; a ValueError of _parse_times is not caught.
CellTimes(cell, shift_date) ==
    LET first == IF cell.times.present
                 THEN _parse_times(cell.times.text, shift_date)
                 ELSE InvalidTimes
    IN  IF first.kind # "invalid" THEN first
        ELSE LET second == IF cell.popup.present
                           THEN _parse_times(cell.popup.text, shift_date)
                           ELSE InvalidTimes
             IN  IF second.kind # "invalid" THEN second
                 ELSE PlaceholderTimes(shift_date)

\* The body of the cell loop for one cell: "skip" (continue), "raised", or
\* a shift for the open or the picked list.
NoShift == [kind |-> "skip"]
CellOutcome(cell, date_str, assignment, my_name_pattern, now_year) ==
    IF ~cell.has_text THEN NoShift
    ELSE
    LET cell_text == strip(cell.text)
        label == LabelOf(cell_text)
    IN  IF MatchOpen(label) = NoMatch THEN NoShift
        ELSE IF cell.pending /\ ~NameMatches(my_name_pattern, cell_text) THEN NoShift
        ELSE
        LET is_picked_by_me == cell.pending
            shift_date == _parse_date(date_str, now_year)
        IN  IF ~shift_date.ok THEN NoShift
            ELSE
            LET times == CellTimes(cell, shift_date)
            IN  IF times.kind = "raised" THEN [kind |-> "raised"]
                ELSE [kind |-> IF is_picked_by_me THEN "picked" ELSE "open",
                      shift |-> CellShift(shift_date, times, assignment, label)]

NoLists == [raised |-> FALSE, open |-> <<>>, picked |-> <<>>]
Raised == [raised |-> TRUE, open |-> <<>>, picked |-> <<>>]

\* for col_idx, cell in enumerate(cells), from the cell at position i
RECURSIVE CellLoop(_, _, _, _, _, _, _)
CellLoop(cells, i, week_dates, assignment, my_name_pattern, now_year, lists) ==
    IF i > Len(cells) \/ i > Len(week_dates) THEN lists
    ELSE LET out == CellOutcome(cells[i], week_dates[i], assignment,
                                my_name_pattern, now_year)
             next == IF out.kind = "open"
                     THEN [lists EXCEPT !.open = Append(@, out.shift)]
                     ELSE IF out.kind = "picked"
                     THEN [lists EXCEPT !.picked = Append(@, out.shift)]
                     ELSE lists
         IN  IF out.kind = "raised" THEN Raised
             ELSE CellLoop(cells, i + 1, week_dates, assignment,
                           my_name_pattern, now_year, next)

\* sorted(date_map.keys())
RECURSIVE SortedSeq(_)
SortedSeq(set) ==
    IF set = {} THEN <<>>
    ELSE LET least == CHOOSE x \in set : \A y \in set : x <= y
         IN  <<least>> \o SortedSeq(set \ {least})

\* for block in data_rows_blocks, from the block at position i
RECURSIVE BlockLoop(_, _, _, _, _)
BlockLoop(page, i, my_name_pattern, now_year, lists) ==
    IF i > Len(page.blocks) \/ lists.raised THEN lists
    ELSE LET block == page.blocks[i]
             header_tops == SortedSeq(DOMAIN page.date_map)
             header_top == _get_header_for_row(block.top, header_tops)
             skip == \/ block.top = NoOffset
                     \/ header_top = NoHeader
                     \/ ~block.has_row
                     \/ ~block.has_left_col
             next == IF skip THEN lists
                     ELSE CellLoop(block.cells, 1, page.date_map[header_top],
                                   strip(block.assignment), my_name_pattern,
                                   now_year, lists)
         IN  BlockLoop(page, i + 1, my_name_pattern, now_year, next)

\* An extraction that raises when the page has no week header.
_extract_open_shifts_raisesWithoutHeaders(page, my_name_pattern, now_year) ==
    IF DOMAIN page.date_map = {} THEN Raised
    ELSE BlockLoop(page, 1, my_name_pattern, now_year, NoLists)

\* _extract_open_shifts(page), with MY_NAME_PATTERN and the current year as
\* arguments
_extract_open_shifts(page, my_name_pattern, now_year) ==
    IF DOMAIN page.date_map = {} THEN NoLists
    ELSE BlockLoop(page, 1, my_name_pattern, now_year, NoLists)

\* ============================================== helper functions on their own
\* Each action applies one function once to arguments drawn from a bounded
\* set and records what it returned.

\* Instants of the conflict test, in hours.
CallHours == {10, 18, 23, 26, 31, 39}

CallIntervals ==
    { i \in [start_time : CallHours, end_time : CallHours] :
        i.start_time < i.end_time }

\* Committed shift lists: none, one, or two of the first three shifts.
CallShiftLists ==
    { <<>> } \cup { <<x>> : x \in CallIntervals } \cup
    { <<x, y>> : x \in { [start_time |-> 23, end_time |-> 31] },
                 y \in CallIntervals }

\* Values of MIN_REST_HOURS: no rest required, and the default.
RestValues == {0, MIN_REST_HOURS}

Call_conflicts_with_my_shifts ==
    /\ called = "none"
    /\ \E o \in CallIntervals, l \in CallShiftLists, r \in RestValues :
         /\ args' = [open_start |-> o.start_time, open_end |-> o.end_time,
                     my_shifts |-> l, min_rest_hours |-> r]
         /\ result' = conflicts_given_rest(o.start_time, o.end_time, l, r)
    /\ called' = "conflicts_with_my_shifts"
    /\ UNCHANGED mainVars

\* Pixel offsets of week headers and of row blocks ("top: <n>px").
HeaderOffsets == {0, 500, 1000}
RowOffsets == {0, 250, 500, 750, 1000, 1250}

\* Header lists: every list without repetition, in any order.
HeaderLists ==
    { <<>> } \cup { <<a>> : a \in HeaderOffsets } \cup
    { l \in [1..2 -> HeaderOffsets] : l[1] # l[2] } \cup
    { l \in [1..3 -> HeaderOffsets] : l[1] # l[2] /\ l[1] # l[3] /\ l[2] # l[3] }

Call_get_header_for_row ==
    /\ called = "none"
    /\ \E r \in RowOffsets, h \in HeaderLists :
         /\ args' = [row_top |-> r, header_tops |-> h]
         /\ result' = _get_header_for_row(r, h)
    /\ called' = "_get_header_for_row"
    /\ UNCHANGED mainVars

\* Date texts: every layout, with year, month and day numbers around the
\* limits of a calendar.
NoYear == 0
FourDigitYears == {1900, 2024, 2025, 2026}
TwoDigitYears == {0, 25, 26, 68, 69, 99}
MonthNumbers == {1, 2, 12, 13}
DayNumbers == {1, 29, 30, 31, 32}
NowYears == {2026, 2028}

DateTexts ==
    [fmt : {"%m/%d/%Y", "%Y-%m-%d", "%b %d, %Y"}, y : FourDigitYears,
     m : MonthNumbers, d : DayNumbers]
    \cup [fmt : {"%m/%d/%y"}, y : TwoDigitYears, m : MonthNumbers, d : DayNumbers]
    \cup [fmt : {"%b %d", "other"}, y : {NoYear}, m : MonthNumbers, d : DayNumbers]

Call_parse_date ==
    /\ called = "none"
    /\ \E t \in DateTexts, n \in NowYears :
         /\ args' = [date_text |-> t, now_year |-> n]
         /\ result' = _parse_date(t, n)
    /\ called' = "_parse_date"
    /\ UNCHANGED mainVars

\* Clock texts: 12-hour and 24-hour ones, in and out of range.
ClockTexts ==
    { [h |-> 7, mi |-> 0, ap |-> "am"],  [h |-> 9, mi |-> 0, ap |-> "pm"],
      [h |-> 12, mi |-> 0, ap |-> "am"], [h |-> 12, mi |-> 0, ap |-> "pm"],
      [h |-> 8, mi |-> 0, ap |-> "am"],  [h |-> 5, mi |-> 0, ap |-> "pm"],
      [h |-> 13, mi |-> 0, ap |-> "pm"], [h |-> 9, mi |-> 75, ap |-> "pm"],
      [h |-> 0, mi |-> 30, ap |-> "am"], [h |-> 19, mi |-> 0, ap |-> "none"],
      [h |-> 7, mi |-> 0, ap |-> "none"], [h |-> 25, mi |-> 0, ap |-> "none"] }

\* Suffixes: none, real dates, and "(M/D)" texts that are no date.
Suffixes ==
    { NoSuffix } \cup
    { [present |-> TRUE, m |-> x[1], d |-> x[2]] :
        x \in { <<2, 18>>, <<1, 1>>, <<2, 29>>, <<2, 30>>, <<13, 1>>, <<12, 31>> } }

TimeTexts ==
    [shape : {"range"}, start : ClockTexts, end : ClockTexts, suffix : Suffixes]
    \cup { [shape |-> "other", start |-> [h |-> 0, mi |-> 0, ap |-> "none"],
            end |-> [h |-> 0, mi |-> 0, ap |-> "none"], suffix |-> NoSuffix] }

\* Shift dates: what _parse_date returned.
AnchorDates ==
    { [ok |-> TRUE, y |-> x[1], m |-> x[2], d |-> x[3]] :
        x \in { <<2024, 2, 28>>, <<2024, 12, 31>>, <<2026, 2, 18>>,
                <<2026, 12, 31>> } }
    \cup { NoDate }

Call_parse_times ==
    /\ called = "none"
    /\ \E t \in TimeTexts, a \in AnchorDates :
         /\ args' = [time_text |-> t, shift_date |-> a]
         /\ result' = _parse_times(t, a)
    /\ called' = "_parse_times"
    /\ UNCHANGED mainVars

\* Cell texts: OPEN labels in both cases, with and without a number, with
\* surrounding whitespace and with a second line; labels that begin with
\* OPEN and go on; labels that do not begin with OPEN; taken cells naming
\* the person after the label or on the next line.
CellTexts ==
    { <<"O", "P", "E", "N", " ", "1">>,
      <<"o", "p", "e", "n", " ", "2">>,
      <<"O", "P", "E", "N">>,
      <<"O", "P", "E", "N", "I", "N", "G">>,
      <<"O", "P", "E", "N", " ", "X">>,
      <<"O", "F", "F">>,
      <<" ", " ", "O", "P", "E", "N", " ", "1", " ", "\n">>,
      <<"O", "P", "E", "N", " ", "1", " ", ">", " ", "S", "M", "I", "T", "H">>,
      <<"O", "P", "E", "N", " ", "1", " ", ">", " ", "J", "o", "n", "e", "s">>,
      <<"O", "P", "E", "N", " ", "2", "\n", "S", "m", "i", "t", "h">>,
      <<"N", "o", "t", "e", "\n", "O", "P", "E", "N", " ", "1">>,
      <<"S", "m", "i", "t", "h">> }

NamePatterns == { <<>>, <<"s", "m", "i", "t", "h">> }

Clock(h, mi, ap) == [h |-> h, mi |-> mi, ap |-> ap]

RangeText(start, end, suffix) ==
    [shape |-> "range", start |-> start, end |-> end, suffix |-> suffix]

OtherText ==
    [shape |-> "other", start |-> Clock(0, 0, "none"), end |-> Clock(0, 0, "none"),
     suffix |-> NoSuffix]

DayText == RangeText(Clock(8, 0, "am"), Clock(5, 0, "pm"), NoSuffix)

NotADateText ==
    RangeText(Clock(9, 0, "pm"), Clock(7, 0, "am"), [present |-> TRUE, m |-> 2, d |-> 30])

\* The times span of a cell: missing, a day range, a night range ending on
\* 02/19, a text that is no range, a clock out of range, a suffix that is
\* no date.
TimesSpans ==
    { NoTimesSpan } \cup
    { [present |-> TRUE, text |-> t] :
        t \in { DayText,
                RangeText(Clock(9, 0, "pm"), Clock(7, 0, "am"),
                          [present |-> TRUE, m |-> 2, d |-> 19]),
                OtherText,
                RangeText(Clock(13, 0, "pm"), Clock(2, 0, "pm"), NoSuffix),
                NotADateText } }

\* What the popup shows: nothing, a day range, a suffix that is no date.
Popups ==
    { NoTimesSpan, [present |-> TRUE, text |-> DayText],
      [present |-> TRUE, text |-> NotADateText] }

Cells ==
    [has_text : {TRUE}, text : CellTexts, pending : BOOLEAN,
     times : TimesSpans, popup : Popups]

OpenCell ==
    [has_text |-> TRUE, text |-> <<"O", "P", "E", "N", " ", "1">>, pending |-> FALSE,
     times |-> [present |-> TRUE, text |-> DayText], popup |-> NoTimesSpan]

PickedCell ==
    [has_text |-> TRUE, text |-> <<"O", "P", "E", "N", " ", "1", " ", ">", " ", "S", "m", "i", "t", "h">>, pending |-> TRUE,
     times |-> [present |-> TRUE, text |-> DayText], popup |-> NoTimesSpan]

EmptyCell == [OpenCell EXCEPT !.has_text = FALSE]

HeaderDate(m, d) == [fmt |-> "%m/%d/%Y", y |-> 2026, m |-> m, d |-> d]

NoDateText == [fmt |-> "other", y |-> 2026, m |-> 2, d |-> 18]

\* Date maps: no header, one header, three headers, a header whose
\* data-date is no date, a header with two columns.
DateMaps ==
    { <<>>,
      (500 :> << HeaderDate(2, 18) >>),
      (0 :> << HeaderDate(2, 11) >>) @@ (500 :> << HeaderDate(2, 18) >>)
         @@ (1000 :> << HeaderDate(2, 25) >>),
      (500 :> << NoDateText >>),
      (500 :> << HeaderDate(2, 18), HeaderDate(2, 19) >>) }

Block(top, has_row, has_left_col, cells) ==
    [top |-> top, has_row |-> has_row, has_left_col |-> has_left_col,
     assignment |-> <<" ", "R", "1", "5", " ">>, cells |-> cells]

\* Row blocks: above every header, at a header, below one, without an
\* offset, without a row or a left column, with an empty cell, with more
\* cells than some headers have columns.
Blocks ==
    { Block(250, TRUE, TRUE, << OpenCell >>),
      Block(500, TRUE, TRUE, << OpenCell >>),
      Block(750, TRUE, TRUE, << OpenCell >>),
      Block(750, TRUE, TRUE, << EmptyCell, PickedCell >>),
      Block(750, TRUE, TRUE, << OpenCell, PickedCell >>),
      Block(750, TRUE, TRUE, << [OpenCell EXCEPT !.times.text = NotADateText] >>),
      Block(NoOffset, TRUE, TRUE, << OpenCell >>),
      Block(750, FALSE, TRUE, << OpenCell >>),
      Block(750, TRUE, FALSE, << OpenCell >>) }

\* Pages: one block with one cell of every kind under one header, and one
\* or two blocks under every date map.
Pages ==
    { [date_map |-> (500 :> << HeaderDate(2, 18) >>),
       blocks |-> << Block(750, TRUE, TRUE, << c >>) >>] : c \in Cells }
    \cup
    { [date_map |-> dm, blocks |-> bs] :
        dm \in DateMaps,
        bs \in { << b >> : b \in Blocks } \cup { << b[1], b[2] >> : b \in Blocks \X Blocks } }

Call_extract_open_shifts ==
    /\ called = "none"
    /\ \E page \in Pages, pattern \in NamePatterns, now_year \in NowYears :
         /\ args' = [page |-> page, MY_NAME_PATTERN |-> pattern, now_year |-> now_year]
         /\ result' = _extract_open_shifts(page, pattern, now_year)
    /\ called' = "_extract_open_shifts"
    /\ UNCHANGED mainVars

\* What one month view may list: up to two open cells and one picked cell
\* out of three shifts, repeats included.
PageShifts == {G1, G2, P1}

MonthPages ==
    [open : { <<>> } \cup { <<a>> : a \in PageShifts }
              \cup { <<a[1], a[2]>> : a \in PageShifts \X PageShifts },
     picked : { <<>> } \cup { <<a>> : a \in PageShifts }]

\* Scraping sessions: no month, one or two months of any kind, three months
\* with one open cell each.
Sessions ==
    { <<>> } \cup { <<p>> : p \in MonthPages }
    \cup { <<p[1], p[2]>> : p \in MonthPages \X MonthPages }
    \cup { << [open |-> <<a[1]>>, picked |-> <<>>], [open |-> <<a[2]>>, picked |-> <<>>],
             [open |-> <<a[3]>>, picked |-> <<>>] >> :
           a \in PageShifts \X PageShifts \X PageShifts }

Call_scrape_open_shifts ==
    /\ called = "none"
    /\ \E pages \in Sessions :
         /\ args' = [pages |-> pages]
         /\ result' = scrape_open_shifts(pages)
    /\ called' = "scrape_open_shifts"
    /\ UNCHANGED mainVars

\* Collections a loaded state may hold under any category: the same two
\* grid shifts, so that one key can be stored under several categories, and
\* for the scheduled category the feed shift.
StoredLists(c) ==
    { <<>>, << from_open_shift(P1, 1) >>,
      IF c = "scheduled" THEN << from_open_shift(to_open_shift(F1), 3) >>
      ELSE << from_open_shift(G2, 2), from_open_shift(P1, 1) >> }

\* What a run hands to its three diffs.
DiffInputs ==
    [sync : [Categories -> BOOLEAN],
     state : { [last_run |-> Now, synced_shifts |-> o, picked_shifts |-> p,
                scheduled_shifts |-> q] :
               o \in StoredLists("open"), p \in StoredLists("picked"),
               q \in StoredLists("scheduled") },
     my : Feeds,
     open : { <<>>, <<P1>>, <<G2, P1>> },
     picked : { <<>>, <<P1>> }]

\* The same inputs with one of them changed: a flag, a stored collection,
\* the feed or a scraped list.
OneInputChanged(a) ==
    ( { [a EXCEPT !.sync[c] = ~a.sync[c]] : c \in Categories }
      \cup { [a EXCEPT !.state.synced_shifts = l] : l \in StoredLists("open") }
      \cup { [a EXCEPT !.state.picked_shifts = l] : l \in StoredLists("picked") }
      \cup { [a EXCEPT !.state.scheduled_shifts = l] : l \in StoredLists("scheduled") }
      \cup { [a EXCEPT !.my = l] : l \in Feeds }
      \cup { [a EXCEPT !.open = l] : l \in { <<>>, <<P1>>, <<G2, P1>> } }
      \cup { [a EXCEPT !.picked = l] : l \in { <<>>, <<P1>> } } ) \ {a}

\* The orders the three diff blocks could be written in.
DiffOrders == { o \in [1..3 -> Categories] : { o[i] : i \in 1..3 } = Categories }

Call_reconcile ==
    /\ called = "none"
    /\ \E a \in DiffInputs : \E b \in OneInputChanged(a) :
         /\ args' = [first |-> a, second |-> b]
         /\ result' =
              [first  |-> [o \in DiffOrders |->
                             ReconcileInOrder(o, a.sync, a.state, a.my, a.open, a.picked)],
               second |-> Reconcile(b.sync, b.state, b.my, b.open, b.picked)]
    /\ called' = "reconcile"
    /\ UNCHANGED mainVars

NextCalls ==
    \/ Call_conflicts_with_my_shifts
    \/ Call_scrape_open_shifts
    \/ Call_extract_open_shifts
    \/ Call_parse_times
    \/ Call_parse_date
    \/ Call_get_header_for_row

SpecCalls == Init /\ [][NextCalls]_vars

\* The three diffs of one run, applied once to inputs drawn from bounded sets.
NextDiffs == Call_reconcile

SpecDiffs == Init /\ [][NextDiffs]_vars

\* ================================================ runs over page snapshots
\* The run with the grid given as page snapshots: scrape_open_shifts
\* extracts every month it visits with _extract_open_shifts.

\* MY_NAME_PATTERN and datetime.now().year of these runs.
PageNamePattern == <<"s", "m", "i", "t", "h">>
PageYear == 2026

\* Page snapshots: no week header at all; a week with an open cell on 02/18
\* and a cell picked by me on 02/19; a row above the only header and a row
\* below it; only a row above the header; a times span that makes
\* _parse_times raise.
NoHeaderPage ==
    [date_map |-> <<>>, blocks |-> << Block(750, TRUE, TRUE, << OpenCell >>) >>]

WeekPage ==
    [date_map |-> (500 :> << HeaderDate(2, 18), HeaderDate(2, 19) >>),
     blocks |-> << Block(750, TRUE, TRUE, << OpenCell, PickedCell >>) >>]

RowAbovePage ==
    [date_map |-> (500 :> << HeaderDate(2, 18) >>),
     blocks |-> << Block(250, TRUE, TRUE, << OpenCell >>),
                   Block(750, TRUE, TRUE, << OpenCell >>) >>]

OnlyRowAbovePage ==
    [date_map |-> (500 :> << HeaderDate(2, 18) >>),
     blocks |-> << Block(250, TRUE, TRUE, << OpenCell >>) >>]

RaisingPage ==
    [date_map |-> (500 :> << HeaderDate(2, 18) >>),
     blocks |-> << Block(750, TRUE, TRUE,
                         << [OpenCell EXCEPT !.times.text = NotADateText] >>) >>]

PageGrids ==
    { <<>>, << NoHeaderPage >>, << WeekPage >>, << RowAbovePage >>,
      << OnlyRowAbovePage >>, << NoHeaderPage, WeekPage >>,
      << WeekPage, NoHeaderPage >>, << RaisingPage >> }

\* The instants of an extracted shift on the time scale of the feed shifts:
\* whole hours, day 1 being 02/18 (the pages above have whole hours in
\* February only).
InHours(shift) ==
    [date |-> shift.date.d - 17,
     start_time |-> 24 * (shift.start_time.d - 17) + shift.start_time.hour,
     end_time |-> 24 * (shift.end_time.d - 17) + shift.end_time.hour,
     assignment |-> shift.assignment, label |-> shift.label]

MapInHours(list) == [i \in DOMAIN list |-> InHours(list[i])]

\* _extract_open_shifts of every month of the session, from month i on.
RECURSIVE ExtractFrom(_, _, _, _)
ExtractFrom(pages, i, my_name_pattern, now_year) ==
    IF i > Len(pages) THEN <<>>
    ELSE << _extract_open_shifts(pages[i], my_name_pattern, now_year) >>
         \o ExtractFrom(pages, i + 1, my_name_pattern, now_year)

\* month_open and month_picked of every month that was extracted.
PageLists(extracted) ==
    [i \in DOMAIN extracted |->
        [open |-> MapInHours(extracted[i].open),
         picked |-> MapInHours(extracted[i].picked)]]

\* The month loop over the extracted months; it raises when the extraction
\* of the month it stops at raised (a month whose extraction raised lists
\* nothing, so the loop stops there at the latest).
ScrapeExtracted(extracted) ==
    CHOOSE out \in
        { [raised |-> r.months + 1 <= Len(extracted) /\ extracted[r.months + 1].raised,
           open |-> r.open, picked |-> r.picked, months |-> r.months] :
          r \in { scrape_open_shifts(PageLists(extracted)) } } : TRUE

\* scrape_open_shifts over page snapshots: the month loop, with the
\* extraction of every month it visits; an exception of the extraction
\* leaves the loop and the function.
scrape_pages(pages, my_name_pattern, now_year) ==
    CHOOSE out \in
        { ScrapeExtracted(extracted) :
          extracted \in { ExtractFrom(pages, 1, my_name_pattern, now_year) } } : TRUE

\* The schedule is edited: the feed or the pages show something else.
EditPages ==
    /\ UNCHANGED callVars
    /\ pc = "idle"
    /\ \E f \in Feeds, g \in PageGrids :
         /\ <<f, g>> # <<feed, grid>>
         /\ feed' = f
         /\ grid' = g
    /\ stable' = FALSE
    /\ UNCHANGED <<sync, disk, calendar, nextId, pc, failure>>
    /\ UNCHANGED runVars
    /\ UNCHANGED histVars

\* main.py:60 with scraper.py:631-662: the scrape returns both lists, or the
\* extraction or the browser raises.
ScrapePages ==
    /\ UNCHANGED callVars
    /\ pc = "fetched"
    /\ \E r \in { scrape_pages(grid, PageNamePattern, PageYear) } :
           \/ /\ ~r.raised
              /\ open_shifts' = r.open
              /\ picked_shifts' = r.picked
              /\ pc' = "scraped"
              /\ failure' = failure
           \/ /\ Abort("scrape")
              /\ UNCHANGED <<open_shifts, picked_shifts>>
    /\ UNCHANGED <<sync, feed, grid, disk, calendar, nextId, state, my_shifts,
                   diff, removed, newly, stable>>
    /\ UNCHANGED histVars

NextPages ==
    \/ EditPages
    \/ EditConfig
    \/ LoadState
    \/ FetchFeed
    \/ ScrapePages
    \/ Diff
    \/ RemoveStep
    \/ AddStep
    \/ SaveState
    \/ NoopSave
    \/ EndRun

SpecPages == Init /\ [][NextPages]_vars

\* =================================================================== claims
Range(list) == { list[i] : i \in DOMAIN list }

\* The collection of category c in the state file, as the next run loads it.
OnDisk(file, c) == Coll(Persisted(file), c)

\* The managed events of the calendar for one category and key.
EventsFor(c, k) == { e \in calendar : e.cat = c /\ e.key = k }

\* C1: for every enabled category the diff is exact: to_add holds the current
\* shifts whose key is not in the stored collection, to_remove the stored
\* entries whose key is not current, to_keep the stored entries whose key is
\* current; to_remove and to_keep are disjoint and together are the stored
\* collection.
C1_DiffIsExact ==
    pc = "diffed" =>
      \A c \in Categories :
        sync[c] =>
          LET cur  == CurrentList(c, my_shifts, open_shifts, picked_shifts)
              prev == Coll(state, c)
              d    == diff[c]
          IN  /\ Range(d.to_add) =
                   { s \in Range(cur) : unique_key(s) \notin Keys(prev) }
              /\ Len(d.to_add) = Cardinality(
                   { i \in DOMAIN cur : unique_key(cur[i]) \notin Keys(prev) })
              /\ Range(d.to_remove) =
                   { e \in Range(prev) : unique_key(e) \notin Keys(cur) }
              /\ Range(d.to_keep) =
                   { e \in Range(prev) : unique_key(e) \in Keys(cur) }
              /\ Range(d.to_remove) \cap Range(d.to_keep) = {}
              /\ Range(d.to_remove) \cup Range(d.to_keep) = Range(prev)
              /\ Len(d.to_remove) + Len(d.to_keep) = Len(prev)

\* C1 witness: one enabled category with something to add, to remove and to
\* keep in the same run.
C1_Witness ==
    /\ pc = "diffed"
    /\ \E c \in Categories :
         /\ sync[c]
         /\ diff[c].to_add # <<>>
         /\ diff[c].to_remove # <<>>
         /\ diff[c].to_keep # <<>>

\* C2 (open category, grid pages without repeated cells): when a run has
\* completed, the calendar holds exactly one managed event for every shift
\* of the current open set, whatever runs aborted before it.
C2_OneEventPerCurrentShift ==
    ( /\ pc = "done"
      /\ sync["open"]
      /\ Cardinality(Keys(open_shifts)) = Len(open_shifts) )
    => \A s \in Range(available_shifts(my_shifts, open_shifts, picked_shifts)) :
         Cardinality(EventsFor("open", unique_key(s))) = 1

\* C3: a run that follows a completed run, with the same feed, grid and
\* flags and an untouched state file, finds nothing to add and nothing to
\* remove in any category, and keeps every stored entry.
C3_SecondRunChangesNothing ==
    (stable /\ pc = "diffed") =>
      \A c \in Categories :
        /\ diff[c].to_add = <<>>
        /\ diff[c].to_remove = <<>>
        /\ diff[c].to_keep = Coll(state, c)

\* C4: a disabled category skips the comparison: nothing to add, nothing to
\* keep, every stored entry to remove; when the run has completed, a delete
\* was issued for every stored event id of the category and its collection
\* in the state file is empty.
C4_DisabledCategoryTornDown ==
    \A c \in Categories :
      ~sync[c] =>
        /\ pc = "diffed" =>
             /\ diff[c].to_add = <<>>
             /\ diff[c].to_keep = <<>>
             /\ diff[c].to_remove = Coll(state, c)
        /\ pc = "done" =>
             /\ Ids(OnDisk(diskAtStart, c)) \subseteq Range(deleteLog)
             /\ OnDisk(disk, c) = <<>>
             /\ Coll(state, c) = <<>>

\* C4 witness: a run completed with a category switched off that had stored
\* entries when the run started.
C4_Witness ==
    /\ pc = "done"
    /\ \E c \in Categories : ~sync[c] /\ OnDisk(diskAtStart, c) # <<>>

\* C5: no two entries of a collection in the state file have the same key,
\* whatever the feed and the grid returned.
C5_PersistedKeysUnique ==
    disk.kind = "doc" =>
      \A c \in Categories :
        Cardinality(Keys(OnDisk(disk, c))) = Len(OnDisk(disk, c))

\* C6: an exception of the feed, of the scrape or of createEvent ends the
\* run: save_state is not called and the state file is what it was when the
\* run started.
C6_CollaboratorFailureLeavesStateFile ==
    failure \in {"feed", "scrape", "create"} =>
      /\ pc = "failed"
      /\ saveCalls = 0
      /\ disk = diskAtStart

\* C6 witness: createEvent raised after the run had already deleted and
\* created events.
C6_Witness ==
    /\ pc = "failed"
    /\ failure = "create"
    /\ deleteLog # <<>>
    /\ \E c \in Categories : newly[c] # <<>>

\* The event ids of a list of stored entries, in list order.
IdSeq(list) == [i \in DOMAIN list |-> list[i].google_event_id]

\* C7: a deleteEvent that raises does not end the run and is not retried:
\* deleteEvent is called once per entry to remove, in order; the run creates
\* what it has to create, saves, and the saved state lacks the entry.
C7_FailedDeleteIsSwallowed ==
    /\ pc = "failed" => failure \in {"load", "feed", "scrape", "create"}
    /\ deleteLog = SubSeq(IdSeq(RemoveQueue(diff)), 1, removed)
    /\ pc = "done" =>
         /\ removed = Len(RemoveQueue(diff))
         /\ \A c \in Categories : Len(newly[c]) = Len(diff[c].to_add)
         /\ saveCalls = 1
         /\ disk.kind = "doc"
         /\ deleteFailed \cap Ids(AllEntries(state)) = {}
         /\ deleteFailed \cap Ids(AllEntries(Persisted(disk))) = {}

\* C7 witness: a run completed and saved although one of its deletes raised,
\* and created an event after that delete.
C7_Witness ==
    /\ pc = "done"
    /\ deleteFailed # {}
    /\ \E c \in Categories : newly[c] # <<>>

\* C8: every entry of the saved state carries the event id a successful
\* createEvent returned for a shift of the same category and key.
C8_PersistedIdsComeFromCreate ==
    \A c \in Categories :
      /\ disk.kind = "doc" =>
           \A e \in Range(OnDisk(disk, c)) :
             [id |-> e.google_event_id, cat |-> c, key |-> unique_key(e)] \in created
      /\ pc = "done" =>
           \A e \in Range(Coll(state, c)) :
             [id |-> e.google_event_id, cat |-> c, key |-> unique_key(e)] \in created

\* C8 witness: a completed run wrote an entry for an event it created, while
\* the calendar also holds an event that no entry tracks.
C8_Witness ==
    /\ pc = "done"
    /\ newly["open"] # <<>>
    /\ OnDisk(disk, "open") # <<>>
    /\ Cardinality(calendar) > Cardinality(Ids(AllEntries(state)))

\* C9 (as stated): an entry that was in the state file is missing from the
\* state a completed run saved only if deleteEvent was called with its id,
\* also when the run started from a missing or corrupt file.
C9_DroppedOnlyAfterDelete ==
    pc = "done" =>
      (savedBefore \ Ids(AllEntries(Persisted(disk)))) \subseteq Range(deleteLog)

\* C9 (amended): an entry a run loaded from the state file is missing from
\* the state it saved only if that run called deleteEvent with its id.
C9_LoadedEntryDroppedOnlyAfterDelete ==
    pc = "done" =>
      (Ids(AllEntries(Persisted(diskAtStart))) \ Ids(AllEntries(Persisted(disk))))
         \subseteq Range(deleteLog)

\* C9 witness: a completed run dropped an entry it had loaded and kept
\* another one.
C9_Witness ==
    /\ pc = "done"
    /\ Ids(AllEntries(Persisted(diskAtStart))) \ Ids(AllEntries(Persisted(disk))) # {}
    /\ Ids(AllEntries(Persisted(diskAtStart))) \cap Ids(AllEntries(Persisted(disk))) # {}

\* C10: whatever invalid content the state file has (invalid JSON, a wrong
\* shape, entries with missing or unexpected fields), load_state raises
\* nothing and returns the empty state.
C10_LoadStateNeverRaises ==
    (pc # "idle" /\ diskAtStart.kind \notin {"missing", "doc"}) =>
      /\ failure # "load"
      /\ pc = "loaded" => state = EmptySyncState

\* C11: save_state followed by load_state returns the state that was saved:
\* the same last_run and the same three ordered collections.
C11_SaveThenLoadReturnsState ==
    pc = "done" =>
      /\ load_state(disk).raised = "none"
      /\ load_state(disk).state = state

\* Two shifts overlap under the half-open test.
OverlapsHalfOpen(c, s) == c.start_time < s.end_time /\ s.start_time < c.end_time

\* One shift ends before or when the other starts.
LiesApart(c, s) == c.end_time <= s.start_time \/ s.end_time <= c.start_time

\* The hours between two shifts that lie apart.
Gap(c, s) ==
    IF c.end_time <= s.start_time
    THEN s.start_time - c.end_time
    ELSE c.start_time - s.end_time

\* A candidate is ineligible next to a committed shift.
Ineligible(c, s, min_rest) ==
    OverlapsHalfOpen(c, s) \/ (LiesApart(c, s) /\ Gap(c, s) < min_rest)

\* C12: the conflict test answers yes exactly when some committed shift
\* overlaps the candidate under the half-open test or lies apart from it
\* with a gap below the rest hours; 18-23 next to 23-31 is eligible with no
\* rest required and ineligible with eight hours.
C12_AvailabilityRule ==
    called = "conflicts_with_my_shifts" =>
      LET c == [start_time |-> args.open_start, end_time |-> args.open_end]
      IN  /\ result = (\E s \in Range(args.my_shifts) :
                         Ineligible(c, s, args.min_rest_hours))
          /\ ( /\ c = [start_time |-> 18, end_time |-> 23]
               /\ args.my_shifts = << [start_time |-> 23, end_time |-> 31] >> )
             => (result = (args.min_rest_hours = 8))

\* C12 witness: the touching pair with no rest required is eligible.
C12_Witness ==
    /\ called = "conflicts_with_my_shifts"
    /\ args.open_start = 18
    /\ args.open_end = 23
    /\ args.my_shifts = << [start_time |-> 23, end_time |-> 31] >>
    /\ args.min_rest_hours = 0
    /\ result = FALSE

\* C13: with open sync on, nothing in the open to_add list and nothing in
\* the open collection a completed run saved conflicts with a feed shift or
\* a picked shift of that run.
C13_OpenNeverConflicts ==
    sync["open"] =>
      LET committed == Range(my_shifts) \cup Range(picked_shifts)
      IN  /\ pc \in {"diffed", "done"} =>
               \A a \in Range(diff["open"].to_add), s \in committed :
                 ~Ineligible(a, s, MIN_REST_HOURS)
          /\ pc = "done" =>
               \A e \in Range(state.synced_shifts), s \in committed :
                 ~Ineligible(e, s, MIN_REST_HOURS)

\* C13 witness: a completed run saved an open entry while another scraped
\* open shift, fully overlapping a feed shift, was left out.
C13_Witness ==
    /\ pc = "done"
    /\ sync["open"]
    /\ state.synced_shifts # <<>>
    /\ \E o \in Range(open_shifts), s \in Range(my_shifts) :
         /\ o.start_time = s.start_time
         /\ o.end_time = s.end_time
         /\ unique_key(o) \notin Keys(state.synced_shifts)

\* The headers at or above a row offset.
AtOrAbove(row_top, headers) == { h \in headers : h <= row_top }

\* The page without the row blocks that have no header at or above them.
WithoutUnassigned(page) ==
    [page EXCEPT !.blocks =
       SelectSeq(page.blocks,
                 LAMBDA b : AtOrAbove(b.top, DOMAIN page.date_map) # {})]

\* C14: a row gets the header with the largest offset that is not greater
\* than the row's offset, in whatever order the headers come (headers 0,
\* 500, 1000 and row 750 give 500; a row at a header's offset gets that
\* header), and no header when none is at or above it; such a row adds no
\* shift and the extraction goes on with the other rows.
C14_RowGetsNearestHeaderAbove ==
    /\ called = "_get_header_for_row" =>
         LET at == AtOrAbove(args.row_top, Range(args.header_tops))
         IN  /\ at = {} => result = NoHeader
             /\ at # {} => result \in at /\ \A h \in at : h <= result
             /\ (Range(args.header_tops) = {0, 500, 1000} /\ args.row_top = 750)
                  => result = 500
             /\ args.row_top \in Range(args.header_tops) => result = args.row_top
    /\ called = "_extract_open_shifts" =>
         result = _extract_open_shifts(WithoutUnassigned(args.page),
                                       args.MY_NAME_PATTERN, args.now_year)

\* C14 witness: headers given as 1000, 0, 500 and a row at 750.
C14_Witness ==
    /\ called = "_get_header_for_row"
    /\ args.header_tops = <<1000, 0, 500>>
    /\ args.row_top = 750
    /\ result = 500

\* The page has one row block with one cell under a header with a date.
OneCellPage(page) ==
    \E c \in Cells :
      page = [date_map |-> (500 :> << HeaderDate(2, 18) >>),
              blocks |-> << Block(750, TRUE, TRUE, << c >>) >>]

TheCell(page) == page.blocks[1].cells[1]

\* The first line of a text, without the whitespace around it.
TheLabel(cell) == LabelOf(strip(cell.text))

\* The label begins with the letters OPEN in either case.
BeginsWithOpen(label) ==
    /\ Len(label) >= 4
    /\ Lower(label[1]) = "o" /\ Lower(label[2]) = "p"
    /\ Lower(label[3]) = "e" /\ Lower(label[4]) = "n"

\* The label is OPEN, whitespace and a number, and nothing else.
OpenAndNumberOnly(label) ==
    /\ BeginsWithOpen(label)
    /\ \E k \in 4..Len(label) :
         /\ \A i \in 5..k : label[i] \in Whitespace
         /\ \A i \in (k + 1)..Len(label) : label[i] \in DigitChars

\* The pattern occurs in the text when case is ignored.
OccursIgnoringCase(pattern, text) ==
    \E i \in 0..(Len(text) - Len(pattern)) :
      \A j \in 1..Len(pattern) : Lower(text[i + j]) = Lower(pattern[j])

\* Reading the times of the cell raises.
TimesRaise(cell) ==
    LET anchor == [ok |-> TRUE, y |-> 2026, m |-> 2, d |-> 18]
    IN  \/ cell.times.present /\ _parse_times(cell.times.text, anchor).kind = "raised"
        \/ /\ ~cell.times.present \/ _parse_times(cell.times.text, anchor).kind = "invalid"
           /\ cell.popup.present
           /\ _parse_times(cell.popup.text, anchor).kind = "raised"

\* C15: a shift cell without the pending-change class goes to the open list
\* whatever the name pattern; one with the class goes to the picked list
\* when the pattern is not empty and occurs in the cell text, case ignored,
\* and to neither list otherwise, so never with an empty pattern.  (Cells
\* whose times text makes the extraction raise are the case of C19.)
C15_CellClassification ==
    ( /\ called = "_extract_open_shifts"
      /\ OneCellPage(args.page)
      /\ BeginsWithOpen(TheLabel(TheCell(args.page))) ) =>
      LET cell == TheCell(args.page)
          mine == /\ args.MY_NAME_PATTERN # <<>>
                  /\ OccursIgnoringCase(args.MY_NAME_PATTERN, cell.text)
      IN  /\ (~cell.pending /\ ~TimesRaise(cell)) =>
                Len(result.open) = 1 /\ result.picked = <<>>
          /\ (cell.pending /\ mine /\ ~TimesRaise(cell)) =>
                result.open = <<>> /\ Len(result.picked) = 1
          /\ (cell.pending /\ ~mine) =>
                result.open = <<>> /\ result.picked = <<>> /\ ~result.raised

\* C15 witness: a pending-change cell naming SMITH in capitals, pattern
\* smith, is in the picked list.
C15_Witness ==
    /\ called = "_extract_open_shifts"
    /\ OneCellPage(args.page)
    /\ TheCell(args.page).pending
    /\ TheCell(args.page).text =
         <<"O", "P", "E", "N", " ", "1", " ", ">", " ", "S", "M", "I", "T", "H">>
    /\ args.MY_NAME_PATTERN = <<"s", "m", "i", "t", "h">>
    /\ Len(result.picked) = 1

\* C16 (as stated): a cell whose label is anything but OPEN optionally
\* followed by a number is in neither output list.
C16_OnlyOpenAndNumberIsCandidate ==
    ( /\ called = "_extract_open_shifts"
      /\ OneCellPage(args.page)
      /\ ~OpenAndNumberOnly(TheLabel(TheCell(args.page))) ) =>
      result.open = <<>> /\ result.picked = <<>>

\* C16 (amended): a cell is a shift candidate exactly when its label begins
\* with the letters OPEN, case ignored; what follows them is not looked at.
\* A cell whose label does not begin with OPEN is in neither list; one
\* whose label does, without the pending-change class, is in the open list
\* under that label.
C16_LabelBeginningWithOpenIsCandidate ==
    ( /\ called = "_extract_open_shifts"
      /\ OneCellPage(args.page) ) =>
      LET cell == TheCell(args.page)
      IN  /\ ~BeginsWithOpen(TheLabel(cell)) =>
                result.open = <<>> /\ result.picked = <<>> /\ ~result.raised
          /\ (BeginsWithOpen(TheLabel(cell)) /\ ~cell.pending /\ ~TimesRaise(cell)) =>
                /\ Len(result.open) = 1
                /\ result.open[1].label = TheLabel(cell)

\* C16 witness: the label OPENING gives an open shift.
C16_Witness ==
    /\ called = "_extract_open_shifts"
    /\ OneCellPage(args.page)
    /\ TheCell(args.page).text = <<"O", "P", "E", "N", "I", "N", "G">>
    /\ ~TheCell(args.page).pending
    /\ Len(result.open) = 1

\* A clock text of the 12-hour form with hour and minute in range.
Valid12h(t) == t.ap \in {"am", "pm"} /\ t.h \in 1..12 /\ t.mi \in 0..59

\* A clock text of the 24-hour form with hour and minute in range.
Valid24h(t) == t.ap = "none" /\ t.h \in 0..23 /\ t.mi \in 0..59

SameDay(instant, date) ==
    instant.y = date.y /\ instant.m = date.m /\ instant.d = date.d

\* The first instant is not after the second.
NotAfter(a, b) ==
    \/ DateBefore(a, b)
    \/ /\ SameDay(a, b)
       /\ a.hour * 60 + a.minute <= b.hour * 60 + b.minute

\* C17: for a valid 12-hour range without a date suffix and any anchor
\* date, start and end are on the anchor day and start is not after end,
\* also when the end clock is earlier than the start clock.
C17_SameDayStartNotAfterEnd ==
    ( /\ called = "_parse_times"
      /\ args.shift_date.ok
      /\ args.time_text.shape = "range"
      /\ Valid12h(args.time_text.start)
      /\ Valid12h(args.time_text.end)
      /\ ~args.time_text.suffix.present ) =>
      /\ result.kind = "times"
      /\ SameDay(result.start, args.shift_date)
      /\ SameDay(result.end, args.shift_date)
      /\ NotAfter(result.start, result.end)

\* C18: for a valid range with an MM/DD suffix that is a date of the year
\* it is put in, the end is on the suffix's month and day, in the anchor's
\* year, or in the next year when the suffix date of the anchor's year is
\* before the anchor date; the end date is not before the start date.
C18_SuffixYear ==
    ( /\ called = "_parse_times"
      /\ args.shift_date.ok
      /\ args.time_text.shape = "range"
      /\ \/ Valid12h(args.time_text.start) /\ Valid12h(args.time_text.end)
         \/ Valid24h(args.time_text.start) /\ Valid24h(args.time_text.end)
      /\ args.time_text.suffix.present ) =>
      LET anchor == args.shift_date
          suffix == args.time_text.suffix
          wraps  == \/ suffix.m < anchor.m
                    \/ suffix.m = anchor.m /\ suffix.d < anchor.d
          year   == IF wraps THEN anchor.y + 1 ELSE anchor.y
      IN  (ValidDate(anchor.y, suffix.m, suffix.d) /\ ValidDate(year, suffix.m, suffix.d)) =>
            /\ result.kind = "times"
            /\ SameDay(result.start, anchor)
            /\ result.end.y = year
            /\ result.end.m = suffix.m
            /\ result.end.d = suffix.d
            /\ ~DateBefore(result.end, result.start)

\* C18 witness: anchor Dec 31 with suffix 01/01 ends in the next year.
C18_Witness ==
    /\ called = "_parse_times"
    /\ args.shift_date.ok
    /\ args.shift_date.m = 12 /\ args.shift_date.d = 31
    /\ args.time_text.suffix = [present |-> TRUE, m |-> 1, d |-> 1]
    /\ result.kind = "times"
    /\ result.end.y = args.shift_date.y + 1

\* C19: whatever the times text is, _parse_times raises nothing, and a
\* candidate cell that is not taken by someone else is emitted; when
\* neither the times span nor the popup gives times, with 00:00 to 23:59 on
\* its date.
C19_TimeParseFailureKeepsShift ==
    /\ called = "_parse_times" => result.kind # "raised"
    /\ ( /\ called = "_extract_open_shifts"
         /\ OneCellPage(args.page)
         /\ BeginsWithOpen(TheLabel(TheCell(args.page)))
         /\ ~TheCell(args.page).pending ) =>
         LET cell == TheCell(args.page)
             date == [ok |-> TRUE, y |-> 2026, m |-> 2, d |-> 18]
             none == /\ ~cell.times.present
                        \/ _parse_times(cell.times.text, date).kind # "times"
                     /\ ~cell.popup.present
                        \/ _parse_times(cell.popup.text, date).kind # "times"
         IN  /\ ~result.raised
             /\ Len(result.open) = 1
             /\ none =>
                  /\ result.open[1].start_time = At(date, [hour |-> 0, minute |-> 0])
                  /\ result.open[1].end_time = At(date, [hour |-> 23, minute |-> 59])

\* The text is written in one of the five formats.
InAFormat(date_text) == \E i \in DOMAIN DateFormats : DateFormats[i] = date_text.fmt

PageKeys(page) == Keys(page.open) \cup Keys(page.picked)

\* The keys of the first k pages of a session.
KeysUpTo(pages, k) == UNION { PageKeys(pages[i]) : i \in 1..k }

\* Every key of the list is at one position only.
NoRepeats(list) == Cardinality(Keys(list)) = Len(list)

\* C21: whatever the pages of a session list, also a page that lists a
\* shift twice and months that overlap, no key is twice in the open list
\* the scrape returns, and none twice in the picked list.
C21_NoKeyTwiceInAList ==
    called = "scrape_open_shifts" =>
      NoRepeats(result.open) /\ NoRepeats(result.picked)

\* C22: the month loop stops at the first page that lists no key the pages
\* before it did not list, open and picked together; it returns the shifts
\* of the pages before that one and does not look further; every page it
\* passes adds a key, so it passes no more pages than there are keys.
C22_StopsAtFirstPageWithoutNewKey ==
    called = "scrape_open_shifts" =>
      LET pages == args.pages
          n     == result.months
      IN  /\ n <= Len(pages)
          /\ \A i \in 1..n :
                /\ ~(PageKeys(pages[i]) \subseteq KeysUpTo(pages, i - 1))
                /\ Cardinality(KeysUpTo(pages, i)) > Cardinality(KeysUpTo(pages, i - 1))
          /\ PageKeys(PageAt(pages, n)) \subseteq KeysUpTo(pages, n)
          /\ Keys(result.open) \cup Keys(result.picked) = KeysUpTo(pages, n)
          /\ \A e \in Range(result.open) : \E i \in 1..n : e \in Range(pages[i].open)
          /\ \A e \in Range(result.picked) : \E i \in 1..n : e \in Range(pages[i].picked)
          /\ n <= Cardinality(KeysUpTo(pages, Len(pages)))

\* C22 witness: the second month repeats the first, the third has a shift
\* the scrape never gets to.
C22_Witness ==
    /\ called = "scrape_open_shifts"
    /\ Len(args.pages) = 3
    /\ args.pages[2] = args.pages[1]
    /\ ~(PageKeys(args.pages[3]) \subseteq PageKeys(args.pages[1]))
    /\ result.months = 1
    /\ Keys(result.open) = PageKeys(args.pages[1])

\* What the diff of a category is given: its flag, its current list and its
\* stored collection.
CategoryInputs(a, c) ==
    [enabled  |-> a.sync[c],
     current  |-> CurrentList(c, a.my, a.open, a.picked),
     previous |-> Coll(a.state, c)]

\* C23: the diff of a category depends on that category's flag, current
\* list and stored collection only: it is the same in whatever order the
\* three diffs are taken, the same for two runs whose inputs agree on the
\* category whatever the other categories hold, and a current shift of an
\* enabled category whose key is not stored under that category is added,
\* also when the key is stored under another one.
C23_DiffsAreIndependent ==
    called = "reconcile" =>
      LET a == args.first
          b == args.second
          d == result.first[CategoryOrder]
      IN  /\ \A o \in DiffOrders : result.first[o] = d
          /\ \A c \in Categories :
                /\ CategoryInputs(a, c) = CategoryInputs(b, c) => d[c] = result.second[c]
                /\ a.sync[c] =>
                     \A i \in DOMAIN CategoryInputs(a, c).current :
                        LET s == CategoryInputs(a, c).current[i]
                        IN  unique_key(s) \notin Keys(Coll(a.state, c))
                              => s \in Range(d[c].to_add)

\* C23 witness: a shift that is stored as open and is now picked is added
\* as picked and removed as open, and the picked diff is the same for a
\* run that differs in the stored open collection.
C23_Witness ==
    /\ called = "reconcile"
    /\ args.first.sync = DefaultFlags
    /\ args.first.picked = <<P1>>
    /\ unique_key(P1) \in Keys(args.first.state.synced_shifts)
    /\ unique_key(P1) \notin Keys(args.first.state.picked_shifts)
    /\ args.second.state.synced_shifts # args.first.state.synced_shifts
    /\ P1 \in Range(result.first[CategoryOrder]["picked"].to_add)
    /\ unique_key(P1) \in Keys(result.first[CategoryOrder]["open"].to_remove)
    /\ result.second["picked"] = result.first[CategoryOrder]["picked"]
    /\ result.second["open"] # result.first[CategoryOrder]["open"]

\* C24: for an entry a diff keeps, the run calls neither deleteEvent nor
\* createEvent, and the state the run saves holds the entry with the event
\* id it had in the loaded state.
C24_KeptEntriesUntouched ==
    \A c \in Categories : \A i \in DOMAIN diff[c].to_keep :
       LET e == diff[c].to_keep[i]
       IN  /\ e \in Range(Coll(load_state(diskAtStart).state, c))
           /\ e.google_event_id \notin Range(deleteLog)
           /\ unique_key(e) \notin Keys(diff[c].to_add)
           /\ unique_key(e) \notin Keys(newly[c])
           /\ pc = "done" =>
                 /\ e \in Range(Coll(state, c))
                 /\ e \in Range(Coll(Persisted(disk), c))

\* C24 witness: a completed run that deleted one event and kept another
\* entry.
C24_Witness ==
    /\ pc = "done"
    /\ saveCalls = 1
    /\ deleteLog # <<>>
    /\ diff["open"].to_keep # <<>>
    /\ Ids(diff["open"].to_keep) \subseteq Ids(OnDisk(disk, "open"))

\* The run has not computed its diffs yet, or ended before it did.
BeforeDiff ==
    \/ pc \in {"idle", "loaded", "fetched", "scraped"}
    \/ pc = "failed" /\ failure \in {"load", "feed", "scrape"}

\* C25: a run goes through load, fetch, scrape, filter, diff, remote calls
\* and save in this order: no deleteEvent and no createEvent is called before
\* the feed was fetched, the whole scrape returned and the three diffs were
\* computed from them and from the state read at the start; the state file
\* is read before anything else and the run works on what it read then; the
\* file is written at most once, and only when every remote call returned.
C25_StagesInOrder ==
    /\ BeforeDiff =>
          /\ deleteLog = <<>> /\ removed = 0 /\ newly = NoNewly
          /\ saveCalls = 0
    /\ pc = "loaded" => my_shifts = <<>> /\ open_shifts = <<>> /\ picked_shifts = <<>>
    /\ pc = "fetched" => open_shifts = <<>> /\ picked_shifts = <<>> /\ diff = NoDiff
    /\ pc = "scraped" => diff = NoDiff
    /\ pc \in {"loaded", "fetched", "scraped", "diffed"} =>
          /\ state = load_state(diskAtStart).state
          /\ disk = diskAtStart
    /\ (deleteLog # <<>> \/ newly # NoNewly \/ failure = "create") =>
          /\ my_shifts = feed
          /\ open_shifts = scrape_open_shifts(grid).open
          /\ picked_shifts = scrape_open_shifts(grid).picked
          /\ diff = Reconcile(sync, load_state(diskAtStart).state, my_shifts,
                              open_shifts, picked_shifts)
    /\ saveCalls <= 1
    /\ saveCalls = 1 =>
          /\ pc = "done"
          /\ removed = Len(RemoveQueue(diff))
          /\ Len(deleteLog) = removed
          /\ \A c \in Categories : Len(newly[c]) = Len(diff[c].to_add)

\* C25 witness: a completed run that deleted an event, created another and
\* then wrote the file once.
C25_Witness ==
    /\ pc = "done"
    /\ saveCalls = 1
    /\ deleteLog # <<>>
    /\ newly # NoNewly
    /\ disk # diskAtStart

\* The page has no week header.
NoHeaders(page) == DOMAIN page.date_map = {}

\* The page without the row blocks that have no header at or above them.
WithoutHeaderlessRows(page) ==
    [page EXCEPT !.blocks =
        SelectSeq(@, LAMBDA b :
            _get_header_for_row(b.top, SortedSeq(DOMAIN page.date_map)) # NoHeader)]

\* C26: a layout failure does not end the run. The extraction of a page
\* without week headers returns two empty lists and does not raise; a row
\* without a header at or above it is left out and nothing else is, so the
\* scrape returns what the pages without such rows give; after such a
\* scrape the run goes on with the empty lists and no failure.
C26_LayoutFailureDoesNotAbort ==
    /\ \A i \in DOMAIN grid :
          LET e == _extract_open_shifts(grid[i], PageNamePattern, PageYear)
          IN  /\ NoHeaders(grid[i]) => e = NoLists
              /\ e = _extract_open_shifts(WithoutHeaderlessRows(grid[i]),
                                          PageNamePattern, PageYear)
    /\ pc \in {"scraped", "diffed", "done"} =>
          LET r == scrape_pages([i \in DOMAIN grid |-> WithoutHeaderlessRows(grid[i])],
                                PageNamePattern, PageYear)
          IN  /\ ~r.raised
              /\ open_shifts = r.open
              /\ picked_shifts = r.picked
    /\ (pc \in {"scraped", "diffed", "done"} /\ grid # <<>> /\ NoHeaders(grid[1])) =>
          /\ open_shifts = <<>>
          /\ picked_shifts = <<>>
          /\ failure = "none"

\* C26 witness: the first page lost its week headers; the run deleted the
\* event of the stored entry and wrote the state file.
C26_Witness ==
    /\ pc = "done"
    /\ grid # <<>>
    /\ NoHeaders(grid[1])
    /\ grid[1].blocks # <<>>
    /\ OnDisk(diskAtStart, "open") # <<>>
    /\ deleteLog # <<>>
    /\ saveCalls = 1

\* C27: when the three to_add and the three to_remove lists are empty, the
\* run calls neither deleteEvent nor createEvent, and the state it saves
\* has the three collections of the loaded state, entry for entry and in
\* order; only last_run differs.
C27_NoopPassKeepsCollections ==
    (pc = "done" /\ ~AnyChange(diff)) =>
      LET loaded == load_state(diskAtStart).state
      IN  /\ deleteLog = <<>> /\ removed = 0 /\ newly = NoNewly
          /\ saveCalls = 1
          /\ state = [loaded EXCEPT !.last_run = Now]
          /\ disk.kind = "doc"
          /\ Persisted(disk) = [loaded EXCEPT !.last_run = Now]
          /\ \A c \in Categories : OnDisk(disk, c) = OnDisk(diskAtStart, c)

\* C27 witness: a run that found nothing to do with an entry in the file.
C27_Witness ==
    /\ pc = "done"
    /\ ~AnyChange(diff)
    /\ diskAtStart.kind = "doc"
    /\ OnDisk(diskAtStart, "open") # <<>>
    /\ state.synced_shifts = OnDisk(diskAtStart, "open")

\* The keys a category has now: those of its current list when the
\* category is enabled, none when it is disabled.
CurrentKeys(c) ==
    IF sync[c]
    THEN Keys(CurrentList(c, my_shifts, open_shifts, picked_shifts))
    ELSE {}

\* C28: after every completed run the collection saved for a category
\* holds exactly the keys the category has now, and it is the kept entries
\* followed by the newly created ones in to_add order.
C28_SavedKeysAreCurrentKeys ==
    pc = "done" =>
      \A c \in Categories :
         /\ Keys(OnDisk(disk, c)) = CurrentKeys(c)
         /\ AnyChange(diff) => OnDisk(disk, c) = diff[c].to_keep \o newly[c]

\* The same for the SyncState the run holds in memory when it saves.
C28_StateInMemoryHasCurrentKeys ==
    pc = "done" =>
      \A c \in Categories :
         /\ Keys(Coll(state, c)) = CurrentKeys(c)
         /\ AnyChange(diff) =>
               /\ Coll(state, c) = diff[c].to_keep \o newly[c]
               /\ Len(newly[c]) = Len(diff[c].to_add)
               /\ \A i \in DOMAIN newly[c] :
                     unique_key(newly[c][i]) = unique_key(diff[c].to_add[i])

\* The first page of the scrape gives no shift: there is no page, or its
\* extraction returns two empty lists.
FirstPageShowsNothing ==
    \/ grid = <<>>
    \/ LET e == _extract_open_shifts(grid[1], PageNamePattern, PageYear)
       IN  ~e.raised /\ e.open = <<>> /\ e.picked = <<>>

\* C29: when the first page of a scrape gives no shift, the scrape returns
\* two empty lists whatever the later pages hold and the run gets to the
\* diff; for the open and the picked category, when enabled, every entry of
\* the loaded state is to be removed, a completed run called deleteEvent
\* for each of them, and the saved collection is empty.
C29_EmptyFirstPageRemovesEverything ==
    (pc \in {"diffed", "done"} /\ FirstPageShowsNothing) =>
      LET loaded == load_state(diskAtStart).state
      IN  /\ open_shifts = <<>>
          /\ picked_shifts = <<>>
          /\ \A c \in {"open", "picked"} :
                sync[c] =>
                  /\ diff[c].to_remove = Coll(loaded, c)
                  /\ diff[c].to_add = <<>>
                  /\ diff[c].to_keep = <<>>
                  /\ pc = "done" =>
                        /\ Ids(Coll(loaded, c)) \subseteq Range(deleteLog)
                        /\ Coll(state, c) = <<>>
                        /\ OnDisk(disk, c) = <<>>

\* C29 witness: the first page has no week header, the second lists the
\* very shift that is stored; the run deleted its event and saved an empty
\* open collection.
C29_Witness ==
    /\ pc = "done"
    /\ sync = DefaultFlags
    /\ grid = << NoHeaderPage, WeekPage >>
    /\ Keys(OnDisk(diskAtStart, "open"))
         = Keys(scrape_pages(<< WeekPage >>, PageNamePattern, PageYear).open)
    /\ Ids(OnDisk(diskAtStart, "open")) = Range(deleteLog)
    /\ deleteLog # <<>>
    /\ OnDisk(disk, "open") = <<>>

\* C30: the seen keys are one set for open and picked shifts, so the open
\* list and the picked list a scrape returns have no key in common.
C30_OpenAndPickedShareNoKey ==
    called = "scrape_open_shifts" =>
      Keys(result.open) \cap Keys(result.picked) = {}

\* What does hold: a key is returned under both lists only when one page
\* reports it as open and as picked; a key seen on an earlier page is
\* dropped from both lists of every later page.
C30_SharedOnlyWithinOnePage ==
    called = "scrape_open_shifts" =>
      \A k \in Keys(result.open) \cap Keys(result.picked) :
         \E i \in 1..result.months :
            /\ k \in Keys(args.pages[i].open) \cap Keys(args.pages[i].picked)
            /\ k \notin KeysUpTo(args.pages, i - 1)

====
